---- MODULE Spec2Model ----
(***************************************************************************)
(* Model of the embeddable chat widget runtime (apps/widget/src/widget.jsx)*)
(* : the page-wide singleton registry, the init() reentrancy flag, the     *)
(* mount / destroy lifecycle, config polling, the config-updated listener  *)
(* and the theme cache of fetchWidgetTheme.                                *)
(* The API server is modelled next to it: the widget config routes behind  *)
(* requireApiKey (apps/api/src/routes/widgetConfig.js) and the lead        *)
(* submission route with its BHK normalization.                            *)
(*                                                                         *)
(* The browser is single threaded: every action below is one run-to-       *)
(* completion slice of JavaScript, from a call or a callback up to the     *)
(* next await.                                                             *)
(***************************************************************************)
EXTENDS Integers, Sequences, FiniteSets, TLC

\* ------------------------------------------------------------------ bounds
MaxInstances == 2      \* widget instances ever created on the page
MaxCalls == 3          \* init() calls issued on the page
MaxListeners == 2      \* config-updated listeners one instance may register
MaxPending == 2        \* config fetches of poll ticks / listeners in flight
MaxNow == 4            \* clock ticks the page lives through
MaxRequests == 3       \* requests of init and of the event dispatcher on one page
MaxLeads == 1          \* lead rows the server stores
MaxWrites == 2         \* file-store calls between load and rename
MaxExecutions == 2     \* times the widget script is executed on one page
MaxTokens == 2         \* tokens /api/users/auth issues
MaxReads == 2          \* GET config requests between store read and cache write

\* --------------------------------------------------------------- constants
NoInstance == 0        \* mountedWidgets has no WIDGET_INSTANCE_KEY entry
CACHE_DURATION_MS == 2 \* the cache window (1 s), in clock ticks of 500 ms

\* ------------------------------------------------------------------ themes
\* A theme is a JavaScript object: an ordered list of key/value pairs.
\* Values are strings, "null" (JSON null) or "undefined".
Pair(k, v) == [k |-> k, v |-> v]
EmptyTheme == << >>
ThemeA == << Pair("agentName", "A") >>
ThemeB == << Pair("agentName", "B") >>
ThemeAP == << Pair("agentName", "A"), Pair("propertyInfo", "srv") >>
ThemeANull == << Pair("agentName", "A"), Pair("avatarUrl", "null") >>
ThemeAUndef == << Pair("agentName", "A"), Pair("avatarUrl", "undefined") >>
ThemePA == << Pair("propertyInfo", "srv"), Pair("agentName", "A") >>

\* what the config endpoint may hold (the dashboard saves one of these)
ServerConfigs == {ThemeA, ThemeB, ThemeAP}
\* config objects with snake_case fields: a full row, a row without agent name, a
\* row carrying both spellings of the agent name
SnakeFull == << Pair("agent_name", "A"), Pair("primary_color", "red"), Pair("property_info", "srv") >>
SnakeNoAgent == << Pair("primary_color", "red") >>
SnakeBoth == << Pair("agent_name", "A"), Pair("agentName", "B"), Pair("primary_color", "red") >>
\* what a config store may hold
StoredConfigs == ServerConfigs \cup {SnakeFull, SnakeNoAgent, SnakeBoth}
\* what a caller may pass to instance.updateTheme
CallerThemes == {ThemeA, ThemeANull, ThemeAUndef, ThemePA}
\* what a caller may pass as options.theme
ThemeOverrides == {EmptyTheme, ThemeB}
\* what a caller may pass as options.projectId ("" : not passed)
ProjectIds == {"", "p1"}
\* detectPropertyFromPage(): "none" is the empty map
DetectedInfos == {"none", "page"}

KeysOf(t) == {t[n].k : n \in 1..Len(t)}

\* obj[key]
Get(t, key) ==
  IF key \in KeysOf(t)
    THEN (CHOOSE e \in {t[n] : n \in 1..Len(t)} : e.k = key).v
    ELSE "undefined"

\* { ...a, ...b }: a's keys keep their place and take b's value, b's new keys follow
Spread(a, b) ==
  [n \in 1..Len(a) |-> IF a[n].k \in KeysOf(b) THEN Pair(a[n].k, Get(b, a[n].k)) ELSE a[n]]
    \o SelectSeq(b, LAMBDA e : e.k \notin KeysOf(a))

\* JSON.stringify(obj): keys in insertion order, undefined-valued keys dropped
Stringify(t) == SelectSeq(t, LAMBDA e : e.v # "undefined")

\* normalizeTheme of the poll callback: drop undefined and null values
normalizeTheme(t) == SelectSeq(t, LAMBDA e : e.v # "undefined" /\ e.v # "null")

\* JavaScript truthiness of a field value
Truthy(v) == v \notin {"undefined", "null", ""}

\* a || b
Or(a, b) == IF Truthy(a) THEN a ELSE b

\* the theme fields: the snake_case name and the camelCase name of each
ThemeFields ==
  << << "project_id", "projectId" >>, << "agent_name", "agentName" >>,
     << "avatar_url", "avatarUrl" >>, << "primary_color", "primaryColor" >>,
     << "followup_message", "followupMessage" >>, << "bhk_prompt", "bhkPrompt" >>,
     << "inventory_message", "inventoryMessage" >>, << "phone_prompt", "phonePrompt" >>,
     << "thank_you_message", "thankYouMessage" >>, << "bubble_position", "bubblePosition" >>,
     << "auto_open_delay_ms", "autoOpenDelayMs" >>, << "welcome_message", "welcomeMessage" >> >>

SnakeKeys == {ThemeFields[n][1] : n \in 1..Len(ThemeFields)} \cup {"property_info"}

\* the object literal both conversions build: every field is snake || camel, and
\* propertyInfo is property_info || propertyInfo || {} ("none": the empty map)
ToCamel(data) ==
  [n \in 1..Len(ThemeFields) |->
     Pair(ThemeFields[n][2], Or(Get(data, ThemeFields[n][1]), Get(data, ThemeFields[n][2])))]
    \o << Pair("propertyInfo",
                Or(Or(Get(data, "property_info"), Get(data, "propertyInfo")), "none")) >>

\* fetchWidgetTheme lines 106-122: convert only when agent_name is set and agentName is not
ConvertResponse(data) ==
  IF Truthy(Get(data, "agent_name")) /\ ~Truthy(Get(data, "agentName"))
    THEN ToCamel(data) ELSE data

\* deep equality of two objects: same keys with the same values, in any order
DeepEqual(a, b) == {a[n] : n \in 1..Len(a)} = {b[n] : n \in 1..Len(b)}

\* ------------------------------------------------------------------- state
VARIABLES
  readyState,      \* document.readyState: "loading" or "ready"
  body,            \* document.body exists
  detected,        \* what detectPropertyFromPage() returns on this page
  serverConfig,    \* the config the endpoint currently serves
  initInProgress,  \* the module-level reentrancy flag
  mountedWidgets,  \* the registry: the instance under WIDGET_INSTANCE_KEY, or NoInstance
  inst,            \* the instances created so far (closures of mountWidget)
  nextId,          \* identity of the next instance object
  calls,           \* the init() calls: position, options, resolved value
  themeCache,      \* the themeCache entry of the page's cache key, or NoEntry
  pending,         \* config fetches of poll ticks and listeners awaiting their response
  last,            \* history: what the last step did (renders, updateTheme invocations)
  now,             \* Date.now(), in units of half the cache window
  page,            \* window.location of the hosting page: loopback hostname, https
  configured,      \* the API base URL given by each source: options, script dataset,
                   \* build-time env, window global
  apiBaseUrl,      \* the API base URL init resolved / the event dispatcher was created with
  netPc,           \* "start", or "mounted" once the event dispatcher exists
  requests,        \* the requests sent to the network, in order
  expectedKey,     \* the API server's WIDGET_CONFIG_API_KEY, trimmed ("": not set)
  configStore,     \* the widget config store: the config of each project id, or NoRow
  redis,           \* the Redis cache: the cached config of each project id, or NoRow
  leads,           \* the leads table
  chatSessions,    \* the chat sessions table
  events,          \* the events table
  response,        \* history: the last request the API server handled and its answer
  widgetStateStore, \* the conversation state object every render is given
  processEnv,      \* the environment of the API server: its MySQL settings, and NODE_ENV
                   \* (it decides what is logged and whether initializeSchema runs)
  config,          \* the config object of config.js
  storageType,     \* the local variable storageType of bootstrap()
  bootPc,          \* bootstrap(): "start" before the database step, then "listening"
  redisCache,      \* whether initRedis() succeeded
  resolved,        \* history: the store modules the routes resolved last
  reads,           \* GET config requests between their store read and their cache write
  writes,          \* file-store calls between loadStore and the rename of writeJson
  answered,        \* history: the config the last upsert answered returned, per project id
  usersEnv,        \* process.env.DASHBOARD_USERS of the API server: the usernames it lists
  sessions,        \* the sessions table: the row of each token, or NoSession
  issued,          \* history: the username /api/users/auth issued each token to ("": never)
  loggedOut,       \* history: the tokens /api/users/logout answered success for
  verdict,         \* history: the answer of the last request, when it was a verify
  autoInit         \* the auto-initialization block of the script: the window flags, the
                   \* document, the script element, listeners and timers, the init calls

\* the state of the widget on its page
widgetVars == << readyState, body, detected, serverConfig, initInProgress, mountedWidgets,
                 inst, nextId, calls, themeCache, pending, last >>

\* the state the widget's lifecycle does not touch
clockVars == << now >>
netVars == << page, configured, apiBaseUrl, netPc, requests >>
\* the state of the API server
serverVars == << expectedKey, configStore, redis, leads, chatSessions, events, response >>
\* the conversation state: written by the ChatWidget component only
chatVars == << widgetStateStore >>
\* the start of the API server
bootVars == << processEnv, config, storageType, bootPc, redisCache, resolved >>
\* requests the API server is in the middle of
flightVars == << reads, writes, answered >>
\* the auto-initialization of the script on its page
pageVars == << autoInit >>
\* the dashboard users' sessions on the API server
sessionVars == << usersEnv, sessions, issued, loggedOut, verdict >>
outsideVars == << clockVars, netVars, serverVars, chatVars, bootVars, flightVars, pageVars,
                 sessionVars >>

vars == << widgetVars, outsideVars >>

Instances == 1..MaxInstances
Calls == 1..MaxCalls
Created == 1..(nextId - 1)

\* the project ids of the widget config requests
ConfigProjectIds == {"default", "p1"}
\* no config of the project: no row, no element of configs, null from the cache
NoRow == << Pair("none", "none") >>
\* a number or null
NullNumber == [null |-> TRUE, n |-> 0]
Num(n) == [null |-> FALSE, n |-> n]

\* a normalized preference {type, numeric}, and null
Preference(type, numeric) == [ok |-> TRUE, type |-> type, numeric |-> numeric]
NoPreference == [ok |-> FALSE, type |-> "", numeric |-> NullNumber]

\* the bhk field of a request body: absent (or null, or ""), text that is no number, or a
\* number (numeric strings included), held in tenths
BhkAbsent == [kind |-> "undefined", tenths |-> 0]
BhkText == [kind |-> "text", tenths |-> 0]
BhkNumber(tenths) == [kind |-> "number", tenths |-> tenths]
\* the bhkType field: absent, or a string
TypeAbsent == [kind |-> "undefined", text |-> << >>]
TypeString(text) == [kind |-> "string", text |-> text]

\* no lead row
NoLead == [id |-> 0, phone |-> "null", bhk_type |-> "", bhk |-> NullNumber]

\* the response record before any request
NoResponse ==
  [op |-> "none", status |-> 0, body |-> EmptyTheme, projectId |-> "", apiKey |-> "",
   redisOk |-> TRUE, storeOk |-> TRUE, cached |-> FALSE,
   bhk |-> BhkAbsent, bhkType |-> TypeAbsent, phone |-> "absent", microsite |-> TRUE,
   fails |-> "none", lead |-> NoLead]

\* a themeCache entry ({data, timestamp}) and its absence
NoEntry == [present |-> FALSE, data |-> EmptyTheme, timestamp |-> 0]
CacheEntry(data) == [present |-> TRUE, data |-> data, timestamp |-> now]

\* widgetStateStore as the module creates it: closed, at the first stage, no messages,
\* no name, no phone submitted
InitialState ==
  [isOpen |-> FALSE, currentStage |-> "cta", messages |-> 0, userName |-> "",
   phoneSubmitted |-> FALSE]
\* the store in the course of a conversation and at its end
ConversationStates ==
  {[isOpen |-> TRUE, currentStage |-> "name", messages |-> 1, userName |-> "",
    phoneSubmitted |-> FALSE],
   [isOpen |-> TRUE, currentStage |-> "done", messages |-> 1, userName |-> "u",
    phoneSubmitted |-> TRUE]}

InstanceMethods ==
  {"updateTheme", "startConfigPolling", "stopConfigPolling", "updateProjectId", "destroy"}

NoRes == [kind |-> "none", id |-> NoInstance, methods |-> {}]
InstRes(i) == [kind |-> "inst", id |-> i, methods |-> InstanceMethods]
\* the object mountWidget returns when the host is in the DOM without a registry entry
DummyMount ==
  [kind |-> "noop", id |-> NoInstance, methods |-> {"destroy", "updateTheme", "updateProjectId"}]
\* init without its catch blocks: the failure reaches the caller of init
DummyInit_Rejected == [kind |-> "rejected", id |-> NoInstance, methods |-> {}]
\* the object init returns from its two catch blocks
DummyInit == [kind |-> "noop", id |-> NoInstance, methods |-> {"destroy"}]

NoOptions == [projectId |-> "", theme |-> EmptyTheme, target |-> FALSE]
\* the options init() is called with: none, a caller-supplied target element, or a
\* project id together with theme overrides
InitOptions ==
  {NoOptions,
   [projectId |-> "", theme |-> EmptyTheme, target |-> TRUE],
   [projectId |-> "p1", theme |-> ThemeB, target |-> FALSE]}

FetchOutcomes == {"ok", "neterr", "timeout", "non2xx", "badjson"}

BlankInstance ==
  [theme |-> EmptyTheme, projectId |-> "", polling |-> FALSE, mounted |-> FALSE,
   target |-> FALSE, inDom |-> FALSE, listeners |-> 0, dispatcherProjectId |-> ""]

BlankCall == [pc |-> "idle", opts |-> NoOptions, res |-> NoRes, via |-> "none", theme |-> EmptyTheme]

\* op: the step; inst: its instance; outcome: how its config fetch ended; empty: the
\* fetch returned {}; invoked: updateTheme was called; rendered: root.render ran;
\* eq: the theme given equals the current one after normalization; pid, theme: the
\* project id and theme overrides an init() call passed (theme: also the value a direct
\* fetchWidgetTheme call returned); force: the forceRefresh argument of a direct
\* fetchWidgetTheme call; cached: the call returned the cache entry's data; sent: a
\* dispatchEvent call called fetch; threw: the caller saw an exception or an unhandled
\* rejection; extra: the extra fields a dispatchEvent call was given; preserved: the
\* object a root.render of the step was given as preservedState
NoLast == [op |-> "none", inst |-> NoInstance, outcome |-> "none", empty |-> FALSE,
           invoked |-> FALSE, rendered |-> FALSE, eq |-> FALSE, pid |-> "", theme |-> EmptyTheme,
           force |-> FALSE, cached |-> FALSE, sent |-> FALSE, threw |-> FALSE,
           extra |-> "none", preserved |-> "none"]

\* an API base URL by what the checks read of it: whether it names a loopback host
\* ('localhost' / '127.0.0.1') and whether its scheme is https; NoUrl: undefined / null
NoUrl == [set |-> FALSE, loopback |-> FALSE, https |-> FALSE]
Url(loopback, https) == [set |-> TRUE, loopback |-> loopback, https |-> https]
Urls == {Url(l, h) : l \in BOOLEAN, h \in BOOLEAN}
Pages == [loopback : BOOLEAN, https : BOOLEAN]
\* the sources of the API base URL a page may set
Configurations ==
  [options : Urls \cup {NoUrl}, dataset : Urls \cup {NoUrl},
   env : {NoUrl, Url(TRUE, FALSE)}, global : {NoUrl, Url(FALSE, TRUE)}]
\* the extra fields of an event: a plain object, or one JSON.stringify throws on
EventExtras == {"plain", "circular"}

\* document.querySelectorAll('[data-homesfy-widget-host="true"]'): the hosts mountWidget
\* created itself (a caller's target element gets no marker) and that are attached
MarkerHosts == {i \in Created : inst[i].inDom /\ ~inst[i].target}

\* a page still loading, before the widget script ran: no window flag, no listener,
\* no timer; the script tag is not found by findScriptElement yet
ScriptNotLoaded ==
  [executed |-> FALSE, initialized |-> FALSE, readyState |-> "loading", script |-> "none",
   globalUrl |-> FALSE, executions |-> 0, domListeners |-> 0, loadListeners |-> 0,
   attemptTimers |-> 0, fallbackTimers |-> 0, initCalls |-> 0, settling |-> 0,
   host |-> FALSE, mounted |-> FALSE]

InitWidget ==
  /\ readyState \in {"loading", "ready"}
  /\ body \in BOOLEAN
  /\ detected \in DetectedInfos
  /\ serverConfig \in ServerConfigs
  /\ initInProgress = FALSE
  /\ mountedWidgets = NoInstance
  /\ inst = [i \in Instances |-> BlankInstance]
  /\ nextId = 1
  /\ calls = [c \in Calls |-> BlankCall]
  /\ themeCache = NoEntry
  /\ pending = << >>
  /\ last = NoLast
  /\ widgetStateStore = InitialState
  /\ autoInit = ScriptNotLoaded

\* a page loaded and left alone: the state of the specifications that do not mount
InitQuiet ==
  InitWidget /\ readyState = "ready" /\ body = TRUE /\ detected = "none" /\ serverConfig = ThemeA

InitClock == now = 0

\* a production page: https, not loopback, the script tag names an https API
InitNet ==
  /\ page = [loopback |-> FALSE, https |-> TRUE]
  /\ configured = [options |-> NoUrl, dataset |-> Url(FALSE, TRUE), env |-> NoUrl, global |-> NoUrl]
  /\ apiBaseUrl = NoUrl
  /\ netPc = "start"
  /\ requests = << >>

\* the MySQL settings of the environment: none; MYSQL_HOST and MYSQL_USER; a connection
\* URL; a connection URL that matches one of the placeholder patterns
MySqlSettings == {"unset", "vars", "url", "placeholder"}

\* config.js at import: dataStore is "mysql" when MYSQL_HOST and MYSQL_USER are set, or
\* when the connection URL is no placeholder, and "file" otherwise
InitialDataStore(mysql) == IF mysql \in {"vars", "url"} THEN "mysql" ELSE "file"

\* hasDatabaseUrl || hasIndividualVars of bootstrap(): a placeholder URL counts
MySqlConfigured(mysql) == mysql # "unset"

\* no store module resolved yet
NoStores == [lead |-> "none", session |-> "none", event |-> "none"]
StoreGetters == {"lead", "session", "event"}

\* a server without MySQL settings, started and listening
Tokens == 1..MaxTokens

\* the users table: id and username of its rows
Usernames == {"admin", "agent"}
UserId(username) == IF username = "admin" THEN 1 ELSE 2
UsernameOf(userId) == IF userId = 1 THEN "admin" ELSE "agent"

NoSession == [user_id |-> 0, expired |-> FALSE]
NoVerdict == [token |-> 0, username |-> "", valid |-> FALSE]

\* an API server with no session yet
NoSessions ==
  /\ sessions = [t \in Tokens |-> NoSession]
  /\ issued = [t \in Tokens |-> ""]
  /\ loggedOut = {}
  /\ verdict = NoVerdict

\* a server started without DASHBOARD_USERS
InitSessions == usersEnv = {} /\ NoSessions

InitBooted ==
  /\ processEnv = [mysql |-> "unset", production |-> FALSE]
  /\ config = [dataStore |-> InitialDataStore("unset")]
  /\ storageType = "file"
  /\ bootPc = "listening"
  /\ redisCache = FALSE
  /\ resolved = NoStores
  /\ reads = << >>
  /\ InitSessions
  /\ writes = << >>
  /\ answered = [p \in ConfigProjectIds |-> NoRow]

\* the modules are imported, bootstrap() has not reached its database step
InitBoot ==
  /\ processEnv \in [mysql : MySqlSettings, production : BOOLEAN]
  /\ config = [dataStore |-> InitialDataStore(processEnv.mysql)]
  /\ storageType = "file"
  /\ bootPc = "start"
  /\ redisCache = FALSE
  /\ resolved = NoStores
  /\ reads = << >>
  /\ InitSessions
  /\ writes = << >>
  /\ answered = [p \in ConfigProjectIds |-> NoRow]

\* the API server as the widget's specifications leave it: a key is configured,
\* nothing is stored, no request was handled
InitStores ==
  /\ expectedKey = "k1"
  /\ configStore = [p \in ConfigProjectIds |-> NoRow]
  /\ redis = [p \in ConfigProjectIds |-> NoRow]
  /\ leads = << >>
  /\ chatSessions = << >>
  /\ events = << >>
  /\ response = NoResponse

InitServer == InitBooted /\ InitStores

Init == InitWidget /\ InitClock /\ InitNet /\ InitServer

\* -------------------------------------------------------- fetchWidgetTheme
\* The synchronous head of fetchWidgetTheme: a cache-busting call deletes the entry
\* of its key before it fetches.
CacheOnStart(cache, forceRefresh) == IF forceRefresh THEN NoEntry ELSE cache

\* What fetchWidgetTheme returns for a response: the parsed config of a 2xx response
\* with a JSON body, and {} from the catch block for every failure.
FetchResult(outcome, data) == IF outcome = "ok" THEN ConvertResponse(data) ELSE EmptyTheme

\* a fetchWidgetTheme that caches whatever the request ended with
CacheOnResponse_Always(cache, outcome, data) == CacheEntry(data)

\* The cache after the response: themeCache.set only on the success path.
CacheOnResponse(cache, outcome, data) ==
  IF outcome = "ok" THEN CacheEntry(ConvertResponse(data)) ELSE cache

\* ------------------------------------------------------- instance methods
\* hasChanges of instance.updateTheme
HasChanges(newTheme, currentTheme) ==
  \/ Get(newTheme, "agentName") # Get(currentTheme, "agentName")
  \/ Get(newTheme, "avatarUrl") # Get(currentTheme, "avatarUrl")
  \/ Get(newTheme, "primaryColor") # Get(currentTheme, "primaryColor")
  \/ Get(newTheme, "welcomeMessage") # Get(currentTheme, "welcomeMessage")
  \/ Stringify(newTheme) # Stringify(currentTheme)

\* instance.updateTheme(newTheme): currentProps.theme afterwards
ThemeAfterUpdate(i, newTheme) ==
  IF HasChanges(newTheme, inst[i].theme) THEN newTheme ELSE inst[i].theme

\* instance.updateTheme(newTheme) reaches a successful root.render (an unmounted
\* root throws "Cannot update an unmounted root")
UpdateRenders(i, newTheme) == HasChanges(newTheme, inst[i].theme) /\ inst[i].mounted

\* the module-level widgetStateStore object, by its identity
StateObject == "widgetStateStore"

\* a render that hands the component a copy of the state made for the call
PreservedState_Copy(i) == "copy"

\* the preservedState prop of the root.render calls of instance i
PreservedState(i) == StateObject

\* the preservedState a step's render was given, if the step rendered
Rendering(rendered, i) == IF rendered THEN PreservedState(i) ELSE "none"

\* an updateProjectId without its guard
ProjectIdChanges_Always(i, newProjectId) == TRUE

\* the guard of instance.updateProjectId
ProjectIdChanges(i, newProjectId) == newProjectId # "" /\ newProjectId # inst[i].projectId

ProjectIdAfterUpdate(i, newProjectId) ==
  IF ProjectIdChanges(i, newProjectId) THEN newProjectId ELSE inst[i].projectId

\* a poll callback that never sees a change
PollDetectsChange_Never(currentTheme, freshTheme) == FALSE

\* the poll callback's change test on the normalized themes
PollDetectsChange(currentTheme, freshTheme) ==
  \/ Stringify(normalizeTheme(currentTheme)) # Stringify(normalizeTheme(freshTheme))
  \/ Get(normalizeTheme(currentTheme), "avatarUrl") # Get(normalizeTheme(freshTheme), "avatarUrl")
  \/ Get(normalizeTheme(currentTheme), "agentName") # Get(normalizeTheme(freshTheme), "agentName")
  \/ Get(normalizeTheme(currentTheme), "primaryColor") # Get(normalizeTheme(freshTheme), "primaryColor")

\* the config-updated listener's test: freshTheme && Object.keys(freshTheme).length > 0
EventApplies(freshTheme) == Len(freshTheme) > 0

\* -------------------------------------------------------------------- init
\* options.projectId || dataset... || envDefaultProjectId || "default"
\* (the script element carries no project attribute and no env default is built in)
ResolveProjectId(o) == IF o.projectId # "" THEN o.projectId ELSE "default"

\* the theme init hands to mountWidget
InitTheme(remoteTheme, themeOverrides, detectedPropertyInfo) ==
  Spread(Spread(remoteTheme, themeOverrides),
         << Pair("propertyInfo",
                 IF detectedPropertyInfo # "none" THEN detectedPropertyInfo
                 ELSE IF Get(remoteTheme, "propertyInfo") \notin {"undefined", "null"}
                        THEN Get(remoteTheme, "propertyInfo")
                        ELSE "none") >>)

\* init line 494 / mountWidget line 198
RegistryHasInstance == mountedWidgets # NoInstance

\* an init without the reentrancy guard
MustWait_Never == FALSE

\* init line 511: a call that finds the flag set waits
MustWait == initInProgress

\* mountWidget line 216: a marked host is already in the document
HostExists == MarkerHosts # {}

Finish(c, res, via) ==
  calls' = [calls EXCEPT ![c] = [pc |-> "done", opts |-> NoOptions, res |-> res, via |-> via,
                                  theme |-> EmptyTheme]]

\* lines 524-549 and the head of the config fetch: take the flag, then either await
\* DOMContentLoaded or start the forced config fetch
Acquire(c, o) ==
  /\ initInProgress' = TRUE
  /\ IF readyState = "loading"
       THEN /\ calls' = [calls EXCEPT ![c] = [@ EXCEPT !.pc = "waitDom", !.opts = o]]
            /\ UNCHANGED themeCache
       ELSE /\ calls' = [calls EXCEPT ![c] = [@ EXCEPT !.pc = "fetching", !.opts = o]]
            /\ themeCache' = CacheOnStart(themeCache, TRUE)

\* init(options) is called
InitCall(c, o) ==
  /\ UNCHANGED outsideVars
  /\ calls[c].pc = "idle"
  /\ \A d \in Calls : d < c => calls[d].pc # "idle"
  /\ IF RegistryHasInstance
       THEN /\ inst' = [inst EXCEPT ![mountedWidgets].projectId =
                          ProjectIdAfterUpdate(mountedWidgets, ResolveProjectId(o))]
            /\ Finish(c, InstRes(mountedWidgets), "registry")
            /\ last' = [NoLast EXCEPT !.op = "initExisting", !.inst = mountedWidgets,
                           !.pid = ResolveProjectId(o), !.theme = o.theme,
                           !.rendered = ProjectIdChanges(mountedWidgets, ResolveProjectId(o))
                                          /\ inst[mountedWidgets].mounted,
                           !.preserved = Rendering(ProjectIdChanges(mountedWidgets, ResolveProjectId(o))
                                                     /\ inst[mountedWidgets].mounted, mountedWidgets)]
            /\ UNCHANGED << initInProgress, themeCache >>
       ELSE IF MustWait
         THEN /\ calls' = [calls EXCEPT ![c] = [@ EXCEPT !.pc = "waitFlag", !.opts = o]]
              /\ last' = NoLast
              /\ UNCHANGED << inst, initInProgress, themeCache >>
         ELSE /\ Acquire(c, o)
              /\ last' = NoLast
              /\ UNCHANGED inst
  /\ UNCHANGED << readyState, body, detected, serverConfig, mountedWidgets, nextId, pending >>

\* the 100 ms timer of a waiting call fires and finds the flag clear
WaitWake(c) ==
  /\ UNCHANGED outsideVars
  /\ calls[c].pc = "waitFlag"
  /\ ~MustWait
  /\ IF RegistryHasInstance
       THEN /\ Finish(c, InstRes(mountedWidgets), "waited")
            /\ UNCHANGED << initInProgress, themeCache >>
       ELSE Acquire(c, calls[c].opts)
  /\ last' = NoLast
  /\ UNCHANGED << readyState, body, detected, serverConfig, mountedWidgets, inst, nextId, pending >>

\* DOMContentLoaded: the call awaiting it goes on to the config fetch
DomReady ==
  /\ UNCHANGED outsideVars
  /\ readyState = "loading"
  /\ readyState' = "ready"
  /\ calls' = [c \in Calls |->
                 IF calls[c].pc = "waitDom" THEN [calls[c] EXCEPT !.pc = "fetching"] ELSE calls[c]]
  /\ themeCache' = IF \E c \in Calls : calls[c].pc = "waitDom"
                     THEN CacheOnStart(themeCache, TRUE) ELSE themeCache
  /\ last' = NoLast
  /\ UNCHANGED << body, detected, serverConfig, initInProgress, mountedWidgets, inst, nextId, pending >>

\* ------------------------------------------------------------ mountWidget
\* lines 232-487 once the host can be attached: host, shadow root, render root, first
\* render, the instance object, the registry entry and startConfigPolling (one interval,
\* one config-updated listener); then init clears the flag and resolves
MountNew(c, theme, outcome) ==
  /\ inst' = [inst EXCEPT ![nextId] =
                [theme |-> theme, projectId |-> ResolveProjectId(calls[c].opts),
                 polling |-> TRUE, mounted |-> TRUE, target |-> calls[c].opts.target,
                 inDom |-> TRUE, listeners |-> 1,
                 dispatcherProjectId |-> ResolveProjectId(calls[c].opts)]]
  /\ mountedWidgets' = nextId
  /\ nextId' = nextId + 1
  /\ initInProgress' = FALSE
  /\ Finish(c, InstRes(nextId), "mounted")
  /\ last' = [NoLast EXCEPT !.op = "mount", !.inst = nextId, !.rendered = TRUE,
                 !.preserved = Rendering(TRUE, nextId),
                 !.outcome = outcome, !.empty = (outcome # "none" /\ FetchResult(outcome, serverConfig) = EmptyTheme)]

\* mountWidget needs a fresh host: neither the registry nor the document has one
NeedsHost == ~RegistryHasInstance /\ ~HostExists

\* the config fetch of init returns; init builds the theme and calls mountWidget
InitFetchDone(c, outcome) ==
  /\ UNCHANGED outsideVars
  /\ calls[c].pc = "fetching"
  /\ NeedsHost => nextId <= MaxInstances
  /\ themeCache' = CacheOnResponse(themeCache, outcome, serverConfig)
  /\ LET theme == InitTheme(FetchResult(outcome, serverConfig), calls[c].opts.theme, detected)
         pid == ResolveProjectId(calls[c].opts)
         fetched == [NoLast EXCEPT !.op = "initFetch", !.outcome = outcome,
                                   !.empty = (FetchResult(outcome, serverConfig) = EmptyTheme)]
     IN IF RegistryHasInstance
          THEN \* lines 198-212: update the instance in place and return it
               /\ inst' = [inst EXCEPT ![mountedWidgets] =
                             [@ EXCEPT !.theme = ThemeAfterUpdate(mountedWidgets, theme),
                                       !.projectId = ProjectIdAfterUpdate(mountedWidgets, pid)]]
               /\ Finish(c, InstRes(mountedWidgets), "mountExisting")
               /\ initInProgress' = FALSE
               /\ last' = fetched
               /\ UNCHANGED << mountedWidgets, nextId >>
          ELSE IF HostExists
            THEN \* lines 216-230: host without instance, a dummy is returned
                 /\ Finish(c, DummyMount, "orphan")
                 /\ initInProgress' = FALSE
                 /\ last' = fetched
                 /\ UNCHANGED << mountedWidgets, nextId, inst >>
            ELSE IF calls[c].opts.target \/ body
              THEN MountNew(c, theme, outcome)
              ELSE \* lines 239-259: await document.body (observer or 5 s timeout)
                   /\ calls' = [calls EXCEPT ![c] = [@ EXCEPT !.pc = "waitBody", !.theme = theme]]
                   /\ last' = fetched
                   /\ UNCHANGED << mountedWidgets, nextId, inst, initInProgress >>
  /\ UNCHANGED << readyState, body, detected, serverConfig, pending >>

\* the parser creates document.body
BodyAppears ==
  /\ UNCHANGED outsideVars
  /\ ~body
  /\ body' = TRUE
  /\ last' = NoLast
  /\ UNCHANGED << readyState, detected, serverConfig, initInProgress, mountedWidgets, inst,
                  nextId, calls, themeCache, pending >>

\* the MutationObserver of a mount awaiting document.body has fired: lines 261-263,
\* then the rest of mountWidget
MountResume(c) ==
  /\ UNCHANGED outsideVars
  /\ calls[c].pc = "waitBody"
  /\ body
  /\ nextId <= MaxInstances
  /\ MountNew(c, calls[c].theme, "none")
  /\ UNCHANGED << readyState, body, detected, serverConfig, themeCache, pending >>

\* an init whose catch blocks leave the flag as it is
FlagAfterCatch_Kept == TRUE

\* initInProgress after one of init's catch blocks (lines 738-757)
FlagAfterCatch == FALSE

\* the 5 s timeout of the body wait fires first: mountWidget throws, init's catch
\* clears the flag and returns its dummy
MountTimeout(c) ==
  /\ UNCHANGED outsideVars
  /\ calls[c].pc = "waitBody"
  /\ ~body
  /\ initInProgress' = FlagAfterCatch
  /\ Finish(c, DummyInit, "failed")
  /\ last' = NoLast
  /\ UNCHANGED << readyState, body, detected, serverConfig, mountedWidgets, inst, nextId,
                  themeCache, pending >>

\* the caller-supplied target is not an element: host.attachShadow is not a function,
\* the fallback of lines 273-278 throws on host.style, mountWidget rejects; nothing was
\* attached or registered, init's catch (738-748) clears the flag and returns its dummy
MountThrows(c, outcome) ==
  /\ UNCHANGED outsideVars
  /\ calls[c].pc = "fetching"
  /\ NeedsHost
  /\ calls[c].opts.target
  /\ themeCache' = CacheOnResponse(themeCache, outcome, serverConfig)
  /\ initInProgress' = FlagAfterCatch
  /\ Finish(c, DummyInit, "threw")
  /\ last' = [NoLast EXCEPT !.op = "mountThrows", !.outcome = outcome, !.threw = TRUE,
                 !.empty = (FetchResult(outcome, serverConfig) = EmptyTheme)]
  /\ UNCHANGED << readyState, body, detected, serverConfig, mountedWidgets, inst, nextId,
                  pending >>

\* ------------------------------------------------- the instance's public API
\* instance.destroy(): the second definition of the object literal (lines 472-479) is
\* the one the object keeps; it does not call stopConfigPolling
Destroy(i) ==
  /\ UNCHANGED outsideVars
  /\ i \in Created
  /\ inst' = [inst EXCEPT ![i] =
                [@ EXCEPT !.mounted = FALSE,
                          !.inDom = IF ~inst[i].target THEN FALSE ELSE @]]
  /\ mountedWidgets' = NoInstance
  /\ last' = [NoLast EXCEPT !.op = "destroy", !.inst = i]
  /\ UNCHANGED << readyState, body, detected, serverConfig, initInProgress, nextId, calls,
                  themeCache, pending >>

\* instance.stopConfigPolling(): clearInterval; the listener stays registered
StopConfigPolling(i) ==
  /\ UNCHANGED outsideVars
  /\ i \in Created
  /\ inst[i].polling
  /\ inst' = [inst EXCEPT ![i].polling = FALSE]
  /\ last' = [NoLast EXCEPT !.op = "stopConfigPolling", !.inst = i]
  /\ UNCHANGED << readyState, body, detected, serverConfig, initInProgress, mountedWidgets,
                  nextId, calls, themeCache, pending >>

\* instance.startConfigPolling(): a no-op while polling; else a new interval and
\* one more addEventListener
StartConfigPolling(i) ==
  /\ UNCHANGED outsideVars
  /\ i \in Created
  /\ ~inst[i].polling
  /\ inst[i].listeners < MaxListeners
  /\ inst' = [inst EXCEPT ![i] = [@ EXCEPT !.polling = TRUE, !.listeners = @ + 1]]
  /\ last' = [NoLast EXCEPT !.op = "startConfigPolling", !.inst = i]
  /\ UNCHANGED << readyState, body, detected, serverConfig, initInProgress, mountedWidgets,
                  nextId, calls, themeCache, pending >>

\* instance.updateTheme(newTheme) called by the page
UpdateTheme(i, newTheme) ==
  /\ UNCHANGED outsideVars
  /\ i \in Created
  /\ inst' = [inst EXCEPT ![i].theme = ThemeAfterUpdate(i, newTheme)]
  /\ last' = [NoLast EXCEPT !.op = "updateTheme", !.inst = i, !.invoked = TRUE,
                 !.rendered = UpdateRenders(i, newTheme),
                 !.preserved = Rendering(UpdateRenders(i, newTheme), i),
                 !.eq = DeepEqual(normalizeTheme(newTheme), normalizeTheme(inst[i].theme))]
  /\ UNCHANGED << readyState, body, detected, serverConfig, initInProgress, mountedWidgets,
                  nextId, calls, themeCache, pending >>

\* instance.updateProjectId(newProjectId) called by the page
UpdateProjectId(i, newProjectId) ==
  /\ UNCHANGED outsideVars
  /\ i \in Created
  /\ inst' = [inst EXCEPT ![i].projectId = ProjectIdAfterUpdate(i, newProjectId)]
  /\ last' = [NoLast EXCEPT !.op = "updateProjectId", !.inst = i, !.pid = newProjectId,
                 !.rendered = ProjectIdChanges(i, newProjectId) /\ inst[i].mounted,
                 !.preserved = Rendering(ProjectIdChanges(i, newProjectId) /\ inst[i].mounted, i)]
  /\ UNCHANGED << readyState, body, detected, serverConfig, initInProgress, mountedWidgets,
                  nextId, calls, themeCache, pending >>

\* the rendered widget calls its onEvent prop: currentProps.onEvent is the dispatcher
\* mountWidget created at line 290; payload.projectId is the projectId it closed over
OnEvent(i) ==
  /\ UNCHANGED outsideVars
  /\ i \in Created
  /\ inst[i].mounted
  /\ last' = [NoLast EXCEPT !.op = "onEvent", !.inst = i, !.pid = inst[i].dispatcherProjectId]
  /\ UNCHANGED << readyState, body, detected, serverConfig, initInProgress, mountedWidgets,
                  inst, nextId, calls, themeCache, pending >>

\* ------------------------------------------------- auto-initialization
\* what findScriptElement() finds: no element, a tag without data-project and
\* data-api-base-url, a tag with them, a tag with them and data-auto-init="false"
ScriptElements == {"none", "bare", "attrs", "disabled"}

\* lines 818-837: hasRequiredAttrs and autoInitDisabled of shouldAutoInit()
shouldAutoInit(a) ==
  /\ ~a.initialized
  /\ a.script # "disabled"
  /\ a.script \in {"attrs", "disabled"} \/ a.globalUrl

\* an auto-initialization that marks the page initialized only when init has resolved
FlagBeforeInit_OnResolve == FALSE

\* line 890: window.HomesfyChatInitialized = true before init(options) is called
FlagBeforeInit == TRUE

\* the three guards of lines 996-998, 1006-1008 and 1011-1013
NothingYet(a) == ~a.initialized /\ ~a.mounted /\ ~a.host

\* initializeWidget(), lines 840-953, up to the call of init (init runs asynchronously)
initializeWidget(a) ==
  IF a.initialized THEN a
  ELSE IF a.mounted \/ a.host THEN [a EXCEPT !.initialized = TRUE]
  ELSE IF ~shouldAutoInit(a) THEN a
  ELSE [a EXCEPT !.initialized = FlagBeforeInit, !.initCalls = @ + 1, !.settling = @ + 1]

\* attemptInit(), lines 962-972: FALSE when the script tag is not found before the
\* document is complete
AttemptFinds(a) == ~(a.script = "none" /\ a.readyState # "complete")

attemptInit(a) == IF AttemptFinds(a) THEN initializeWidget(a) ELSE a

\* tryInitialize(), lines 956-992
tryInitialize(a) ==
  IF a.initialized THEN a
  ELSE IF a.readyState = "loading" THEN [a EXCEPT !.domListeners = @ + 1]
  ELSE IF a.readyState = "interactive" THEN [a EXCEPT !.attemptTimers = @ + 1]
  ELSE IF AttemptFinds(a) THEN initializeWidget(a)
  ELSE [a EXCEPT !.attemptTimers = @ + 1]

\* what a step of the auto-initialization leaves alone
AutoStep(op, before, after) ==
  /\ last' = [NoLast EXCEPT !.op = op,
                 !.outcome = IF after.initCalls > before.initCalls THEN "init" ELSE "skipped"]
  /\ UNCHANGED << clockVars, netVars, serverVars, chatVars, bootVars, flightVars, sessionVars >>
  /\ UNCHANGED << readyState, body, detected, serverConfig, initInProgress, mountedWidgets,
                  inst, nextId, calls, themeCache, pending >>

\* the script runs (again): lines 770-784 and 994-1026
ExecuteScript ==
  /\ autoInit.executions < MaxExecutions
  /\ \E a \in {[autoInit EXCEPT !.executions = @ + 1, !.executed = TRUE]} :
       /\ autoInit' = IF autoInit.executed THEN a
                      ELSE IF NothingYet(a)
                        THEN [tryInitialize(a) EXCEPT !.loadListeners = @ + 1]
                        ELSE a
       /\ AutoStep("executeScript", autoInit, autoInit')

\* DOMContentLoaded: the handler of lines 976-981, registered with once
DOMContentLoaded ==
  /\ autoInit.readyState = "loading"
  /\ \E a \in {[autoInit EXCEPT !.readyState = "interactive", !.domListeners = 0]} :
       /\ autoInit' = IF autoInit.domListeners = 0 THEN a
                      ELSE IF AttemptFinds(a) THEN initializeWidget(a)
                      ELSE [a EXCEPT !.attemptTimers = @ + 1]
       /\ AutoStep("DOMContentLoaded", autoInit, autoInit')

\* the load event: the handler of lines 1005-1022, registered with once
WindowLoad ==
  /\ autoInit.readyState = "interactive"
  /\ \E a \in {[autoInit EXCEPT !.readyState = "complete", !.loadListeners = 0]} :
       /\ autoInit' = IF autoInit.loadListeners > 0 /\ NothingYet(a)
                        THEN [a EXCEPT !.fallbackTimers = @ + 1]
                        ELSE a
       /\ AutoStep("load", autoInit, autoInit')

\* a timer of lines 979, 984 or 989 fires: attemptInit()
AttemptTimer ==
  /\ autoInit.attemptTimers > 0
  /\ autoInit' = attemptInit([autoInit EXCEPT !.attemptTimers = @ - 1])
  /\ AutoStep("attemptTimer", autoInit, autoInit')

\* the timer of lines 1010-1018 fires
FallbackTimer ==
  /\ autoInit.fallbackTimers > 0
  /\ \E a \in {[autoInit EXCEPT !.fallbackTimers = @ - 1]} :
       /\ autoInit' = IF NothingYet(a) THEN initializeWidget(a) ELSE a
       /\ AutoStep("fallbackTimer", autoInit, autoInit')

\* the init call of line 932 settles: the widget is mounted (host element and registry
\* entry), or init resolved a dummy instance or rejected; lines 932-947 set the flag
AutoInitSettles(mounts) ==
  /\ autoInit.settling > 0
  /\ autoInit' = [autoInit EXCEPT !.settling = @ - 1, !.initialized = TRUE,
                                  !.host = @ \/ mounts, !.mounted = @ \/ mounts]
  /\ AutoStep("initSettles", autoInit, autoInit')

\* the page calls window.HomesfyChat.init() itself and the widget is mounted
PageMounts ==
  /\ autoInit.executed
  /\ ~autoInit.mounted
  /\ autoInit' = [autoInit EXCEPT !.host = TRUE, !.mounted = TRUE]
  /\ AutoStep("pageMounts", autoInit, autoInit')

\* instance.destroy(): the host element and the registry entry are removed
PageDestroys ==
  /\ autoInit.mounted
  /\ autoInit' = [autoInit EXCEPT !.host = FALSE, !.mounted = FALSE]
  /\ AutoStep("pageDestroys", autoInit, autoInit')

\* the script tag becomes visible to findScriptElement, or the page sets
\* window.HOMESFY_WIDGET_API_BASE_URL
PageChanges(script, globalUrl) ==
  /\ autoInit.script \in {"none", script}
  /\ autoInit' = [autoInit EXCEPT !.script = script, !.globalUrl = @ \/ globalUrl]
  /\ autoInit' # autoInit
  /\ AutoStep("pageChanges", autoInit, autoInit')

\* ------------------------------------------------- polling and live refresh
\* a request in flight, with the config the server read for it; whether the response
\* gets through (or the 5 s abort, a network error, a non-2xx status or a malformed
\* body ends it) is decided when it arrives
FetchItem(i, src) == [inst |-> i, src |-> src, data |-> serverConfig]

\* a poll callback that compares with the theme an earlier response left in the
\* cache, not with the theme the widget shows when the response arrives
ComparedTheme_Cached(it) == themeCache.data

\* the theme the poll callback compares the response with: currentProps.theme read at
\* line 378, after the await of line 365 and in the same task as updateTheme
ComparedTheme(it) == inst[it.inst].theme

RemoveAt(q, k) == [n \in 1..(Len(q) - 1) |-> IF n < k THEN q[n] ELSE q[n + 1]]

\* the interval callback of instance i fires: fetchWidgetTheme(apiBaseUrl, id, true)
\* deletes the cache entry and awaits the response
PollTick(i) ==
  /\ UNCHANGED outsideVars
  /\ i \in Created
  /\ inst[i].polling
  /\ Len(pending) < MaxPending
  /\ themeCache' = CacheOnStart(themeCache, TRUE)
  /\ pending' = Append(pending, FetchItem(i, "poll"))
  /\ last' = NoLast
  /\ UNCHANGED << readyState, body, detected, serverConfig, initInProgress, mountedWidgets,
                  inst, nextId, calls >>

\* the response of a poll tick's fetch arrives: lines 367-392
PollDeliver(k, outcome) ==
  /\ UNCHANGED outsideVars
  /\ k \in 1..Len(pending)
  /\ pending[k].src = "poll"
  /\ LET it == pending[k]
         i == it.inst
         freshTheme == FetchResult(outcome, it.data)
         invoked == PollDetectsChange(ComparedTheme(it), freshTheme)
     IN /\ themeCache' = CacheOnResponse(themeCache, outcome, it.data)
        /\ inst' = [inst EXCEPT ![i].theme = IF invoked THEN ThemeAfterUpdate(i, freshTheme) ELSE @]
        /\ last' = [NoLast EXCEPT !.op = "poll", !.inst = i, !.outcome = outcome,
                       !.empty = (freshTheme = EmptyTheme), !.invoked = invoked,
                       !.rendered = invoked /\ UpdateRenders(i, freshTheme),
                       !.preserved = Rendering(invoked /\ UpdateRenders(i, freshTheme), i),
                       !.eq = DeepEqual(normalizeTheme(freshTheme), normalizeTheme(inst[i].theme))]
  /\ pending' = RemoveAt(pending, k)
  /\ UNCHANGED << readyState, body, detected, serverConfig, initInProgress, mountedWidgets,
                  nextId, calls >>

\* the instance of every registered config-updated listener, one entry per registration
RECURSIVE ListenerOwners(_)
ListenerOwners(i) ==
  IF i = 0 THEN << >> ELSE ListenerOwners(i - 1) \o [n \in 1..inst[i].listeners |-> i]

\* a 'homesfy-config-updated' event is dispatched on the window: every registered
\* listener clears the whole cache and starts a forced fetch
ConfigUpdated ==
  /\ UNCHANGED outsideVars
  /\ LET owners == ListenerOwners(nextId - 1)
     IN /\ Len(owners) > 0
        /\ Len(pending) + Len(owners) <= MaxPending
        /\ pending' = pending \o [n \in 1..Len(owners) |-> FetchItem(owners[n], "event")]
  /\ themeCache' = NoEntry
  /\ last' = NoLast
  /\ UNCHANGED << readyState, body, detected, serverConfig, initInProgress, mountedWidgets,
                  inst, nextId, calls >>

\* the response of a listener's fetch arrives: lines 418-422
EventDeliver(k, outcome) ==
  /\ UNCHANGED outsideVars
  /\ k \in 1..Len(pending)
  /\ pending[k].src = "event"
  /\ LET it == pending[k]
         i == it.inst
         freshTheme == FetchResult(outcome, it.data)
         invoked == EventApplies(freshTheme)
     IN /\ themeCache' = CacheOnResponse(themeCache, outcome, it.data)
        /\ inst' = [inst EXCEPT ![i].theme = IF invoked THEN ThemeAfterUpdate(i, freshTheme) ELSE @]
        /\ last' = [NoLast EXCEPT !.op = "event", !.inst = i, !.outcome = outcome,
                       !.empty = (freshTheme = EmptyTheme), !.invoked = invoked,
                       !.rendered = invoked /\ UpdateRenders(i, freshTheme),
                       !.preserved = Rendering(invoked /\ UpdateRenders(i, freshTheme), i),
                       !.eq = DeepEqual(normalizeTheme(freshTheme), normalizeTheme(inst[i].theme))]
  /\ pending' = RemoveAt(pending, k)
  /\ UNCHANGED << readyState, body, detected, serverConfig, initInProgress, mountedWidgets,
                  nextId, calls >>

\* the rendered ChatWidget component records the visitor's progress in the object it
\* was given as preservedState
Converse(st) ==
  /\ mountedWidgets # NoInstance
  /\ inst[mountedWidgets].mounted
  /\ st # widgetStateStore
  /\ widgetStateStore' = st
  /\ last' = NoLast
  /\ UNCHANGED << readyState, body, detected, serverConfig, initInProgress, mountedWidgets,
                  inst, nextId, calls, themeCache, pending >>
  /\ UNCHANGED << clockVars, netVars, serverVars, bootVars, flightVars, pageVars, sessionVars >>

\* the dashboard saves another config
ServerUpdate(cfg) ==
  /\ UNCHANGED outsideVars
  /\ cfg # serverConfig
  /\ serverConfig' = cfg
  /\ last' = NoLast
  /\ UNCHANGED << readyState, body, detected, initInProgress, mountedWidgets, inst, nextId,
                  calls, themeCache, pending >>

\* ------------------------------------------ fetchWidgetTheme called directly
\* a fetchWidgetTheme that serves whatever entry the key has
CacheFresh_Any(cache) == cache.present

\* lines 72-73: cached && (Date.now() - cached.timestamp) < CACHE_DURATION_MS
CacheFresh(cache) == cache.present /\ now - cache.timestamp < CACHE_DURATION_MS

\* fetchWidgetTheme(apiBaseUrl, projectId, forceRefresh) up to its return of the cached
\* data or its await of the network; urlBust: the page URL has widget_cache_bust=true
fetchWidgetTheme(forceRefresh, urlBust) ==
  /\ UNCHANGED outsideVars
  /\ LET cacheBust == urlBust \/ forceRefresh
     IN IF ~cacheBust /\ CacheFresh(themeCache)
          THEN /\ last' = [NoLast EXCEPT !.op = "fetchCached", !.force = forceRefresh,
                             !.cached = TRUE, !.theme = themeCache.data]
               /\ UNCHANGED << themeCache, pending >>
          ELSE /\ Len(pending) < MaxPending
               /\ themeCache' = CacheOnStart(themeCache, cacheBust)
               /\ pending' = Append(pending, FetchItem(NoInstance, "call"))
               /\ last' = [NoLast EXCEPT !.op = "fetchStart", !.force = forceRefresh]
  /\ UNCHANGED << readyState, body, detected, serverConfig, initInProgress, mountedWidgets,
                  inst, nextId, calls >>

\* the response of a direct call's request arrives: lines 98-140
fetchWidgetThemeReturn(k, outcome) ==
  /\ UNCHANGED outsideVars
  /\ k \in 1..Len(pending)
  /\ pending[k].src = "call"
  /\ themeCache' = CacheOnResponse(themeCache, outcome, pending[k].data)
  /\ last' = [NoLast EXCEPT !.op = "fetchReturn", !.outcome = outcome,
                 !.empty = (FetchResult(outcome, pending[k].data) = EmptyTheme),
                 !.theme = FetchResult(outcome, pending[k].data)]
  /\ pending' = RemoveAt(pending, k)
  /\ UNCHANGED << readyState, body, detected, serverConfig, initInProgress, mountedWidgets,
                  inst, nextId, calls >>

\* time passes
Tick ==
  /\ UNCHANGED << netVars, serverVars, chatVars, bootVars, flightVars, pageVars, sessionVars >>
  /\ now < MaxNow
  /\ now' = now + 1
  /\ last' = NoLast
  /\ UNCHANGED << readyState, body, detected, serverConfig, initInProgress, mountedWidgets,
                  inst, nextId, calls, themeCache, pending >>

\* ------------------------------------------------------ the API base URL
\* a || b on URLs
FirstSet(a, b) == IF a.set THEN a ELSE b

\* lines 36-45: the build-time URL is ignored when it is loopback and the page is https
envApiBaseUrl(rawEnvApiBaseUrl, pg) ==
  IF rawEnvApiBaseUrl.set /\ pg.https /\ rawEnvApiBaseUrl.loopback THEN NoUrl ELSE rawEnvApiBaseUrl

\* init lines 552-597: precedence of the sources, the local-development default
\* "http://localhost:4000", then the two loopback checks
ResolveApiBaseUrl(cfg, pg) ==
  LET given == FirstSet(cfg.options,
                 FirstSet(cfg.dataset, FirstSet(envApiBaseUrl(cfg.env, pg), cfg.global)))
      withDefault == IF given.set THEN given
                     ELSE IF pg.loopback /\ ~pg.https THEN Url(TRUE, FALSE) ELSE NoUrl
      onSite == IF ~pg.loopback /\ withDefault.set /\ withDefault.loopback THEN NoUrl ELSE withDefault
  IN IF pg.https /\ onSite.set /\ onSite.loopback THEN NoUrl ELSE onSite

\* a request as the network sees it: the kind of endpoint, the base URL it was built
\* from, and whether it is in flight, answered or failed
Request(kind, base) == [kind |-> kind, base |-> base, status |-> "inflight"]

\* init from the URL resolution to the mount: the config fetch is sent with the
\* resolved URL, and mountWidget creates the event dispatcher with it
InitNetwork ==
  /\ netPc = "start"
  /\ apiBaseUrl' = ResolveApiBaseUrl(configured, page)
  /\ requests' = Append(requests, Request("config", ResolveApiBaseUrl(configured, page)))
  /\ netPc' = "mounted"
  /\ last' = [NoLast EXCEPT !.op = "initNetwork"]
  /\ UNCHANGED << page, configured, clockVars, serverVars, chatVars, bootVars, flightVars, pageVars, sessionVars >>
  /\ UNCHANGED << readyState, body, detected, serverConfig, initInProgress, mountedWidgets,
                  inst, nextId, calls, themeCache, pending >>

\* ------------------------------------------------- /api/users: auth, verify, logout
\* crypto.randomBytes(32): a token no earlier auth returned
NextToken == CHOOSE t \in Tokens : issued[t] = "" /\ \A u \in 1..(t - 1) : issued[u] # ""

\* lines 85-113: the user /auth accepts. With the database, the users row whose password
\* hash matches; without it VITE_DASHBOARD_USERNAME ("admin" when unset) or an entry of
\* DASHBOARD_USERS, and then user.id is undefined
AuthUser(username, passwordOk, dbUp) ==
  IF ~passwordOk THEN 0
  ELSE IF dbUp THEN UserId(username)
  ELSE IF username = "admin" \/ username \in usersEnv THEN 1
  ELSE 0

\* what the step of a request to /api/users leaves alone
UsersStep ==
  /\ UNCHANGED usersEnv
  /\ UNCHANGED << widgetVars, clockVars, netVars, serverVars, chatVars, bootVars, flightVars, pageVars >>

\* POST /api/users/auth. create: Session.create inserted the row ("created"), or it
\* threw and the catch of lines 125-135 answered a random token ("simple") or failed in
\* its require call, which a module has not ("error": 500)
PostAuth(username, passwordOk, dbUp, create) ==
  /\ \E t \in Tokens : issued[t] = ""
  /\ IF AuthUser(username, passwordOk, dbUp) = 0 \/ create = "error"
       THEN UNCHANGED << sessions, issued >>
       ELSE /\ issued' = [issued EXCEPT ![NextToken] = username]
            /\ sessions' = IF create = "created"
                              THEN [sessions EXCEPT ![NextToken] =
                                      [user_id |-> AuthUser(username, passwordOk, dbUp),
                                       expired |-> FALSE]]
                              ELSE sessions
  /\ verdict' = NoVerdict
  /\ UNCHANGED loggedOut
  /\ UsersStep

\* Session.findByToken(token): the row joined with its user, unless expired
findByToken(token) ==
  IF sessions[token] # NoSession /\ ~sessions[token].expired
    THEN UsernameOf(sessions[token].user_id) ELSE ""

\* lines 166-173: the catch of /verify, usersEnv.includes(username)
VerifyWithoutDatabase(username) == username \in usersEnv

\* POST /api/users/verify with a token and a username
PostVerify(token, username, dbUp) ==
  /\ verdict' = [token |-> token, username |-> username,
                 valid |-> IF dbUp THEN findByToken(token) = username
                           ELSE VerifyWithoutDatabase(username)]
  /\ UNCHANGED << sessions, issued, loggedOut >>
  /\ UsersStep

\* POST /api/users/logout: Session.deleteByToken, its failure ignored; success
PostLogout(token, dbUp) ==
  /\ sessions' = IF dbUp THEN [sessions EXCEPT ![token] = NoSession] ELSE sessions
  /\ loggedOut' = loggedOut \cup {token}
  /\ verdict' = NoVerdict
  /\ UNCHANGED issued
  /\ UsersStep

\* 24 hours pass for a session: expires_at > NOW() no longer holds
SessionExpires(token) ==
  /\ sessions[token] # NoSession
  /\ ~sessions[token].expired
  /\ sessions' = [sessions EXCEPT ![token].expired = TRUE]
  /\ verdict' = NoVerdict
  /\ UNCHANGED << issued, loggedOut >>
  /\ UsersStep

\* ------------------------------------------------- createEventDispatcher
\* createEventDispatcher(apiBaseUrl, projectId, microsite) called with any URL
createEventDispatcher(url) ==
  /\ netPc = "start"
  /\ apiBaseUrl' = url
  /\ netPc' = "mounted"
  /\ last' = [NoLast EXCEPT !.op = "createEventDispatcher"]
  /\ UNCHANGED << page, configured, requests, clockVars, serverVars, chatVars, bootVars, flightVars, pageVars, sessionVars >>
  /\ UNCHANGED << readyState, body, detected, serverConfig, initInProgress, mountedWidgets,
                  inst, nextId, calls, themeCache, pending >>

\* lines 147-153: isLocalhostApi && !isLocalhostSite
Suppressed(api, pg) == api.set /\ api.loopback /\ ~pg.loopback

\* the dispatcher calls fetch: not suppressed, and JSON.stringify(payload) returned
CallsFetch(api, pg, extra) == ~Suppressed(api, pg) /\ extra # "circular"

\* a dispatcher without its try / catch and without the .catch on the fetch promise
ObservedFailure_NoCatch(syncThrow, rejected) == syncThrow \/ rejected

\* what the caller sees of a failure: the try / catch of lines 155-185 takes the
\* exception of JSON.stringify or fetch, the .catch of lines 173-179 the rejection
ObservedFailure(syncThrow, rejected) == FALSE

\* the dispatcher is called: dispatchEvent(type, extra)
dispatchEvent(extra) ==
  /\ netPc = "mounted"
  /\ Len(requests) < MaxRequests
  /\ requests' = IF CallsFetch(apiBaseUrl, page, extra)
                    THEN Append(requests, Request("event", apiBaseUrl)) ELSE requests
  /\ last' = [NoLast EXCEPT !.op = "dispatchEvent", !.extra = extra,
                 !.sent = CallsFetch(apiBaseUrl, page, extra),
                 !.threw = ObservedFailure(~Suppressed(apiBaseUrl, page) /\ extra = "circular", FALSE)]
  /\ UNCHANGED << page, configured, apiBaseUrl, netPc, clockVars, serverVars, chatVars, bootVars, flightVars, pageVars, sessionVars >>
  /\ UNCHANGED << readyState, body, detected, serverConfig, initInProgress, mountedWidgets,
                  inst, nextId, calls, themeCache, pending >>

\* the network answers an event POST or fails it
EventSettles(k, outcome) ==
  /\ k \in 1..Len(requests)
  /\ requests[k].kind = "event"
  /\ requests[k].status = "inflight"
  /\ requests' = [requests EXCEPT ![k].status = IF outcome = "ok" THEN "ok" ELSE "failed"]
  /\ last' = [NoLast EXCEPT !.op = "eventSettles", !.outcome = outcome,
                 !.threw = ObservedFailure(FALSE, outcome # "ok")]
  /\ UNCHANGED << page, configured, apiBaseUrl, netPc, clockVars, serverVars, chatVars, bootVars, flightVars, pageVars, sessionVars >>
  /\ UNCHANGED << readyState, body, detected, serverConfig, initInProgress, mountedWidgets,
                  inst, nextId, calls, themeCache, pending >>

\* ------------------------------------------------- GET /api/widget-config
\* widgetConfig.js lines 78-97: the body res.json sends for a stored config (JSON
\* has no undefined fields)
GetConfigBody(cfg) ==
  IF Truthy(Get(cfg, "agent_name")) THEN Stringify(ToCamel(cfg)) ELSE cfg

\* --------------------------------------------------------- the API server
\* the key a request may carry in a header ("": the header is absent or empty)
ApiKeys == {"", "k1", "k2"}
\* WIDGET_CONFIG_API_KEY of the deployment
ExpectedKeys == {"", "k1"}
\* what a POST may carry as its body
ConfigUpdates == {ThemeB, << Pair("role", "admin") >>}
\* what the store may hold for a project when the server starts
InitialConfigs == {NoRow, SnakeFull}

\* auth.js line 2: X-API-Key, else Authorization without its "Bearer " prefix, else ""
RequestKey(xApiKey, bearer) == IF xApiKey # "" THEN xApiKey ELSE bearer

\* requireApiKey called next(): the request reaches the route handler
PassedOn == 0

\* auth.js requireApiKey: PassedOn, or the status it answers with
requireApiKey(apiKey) ==
  IF expectedKey = "" THEN PassedOn
  ELSE IF apiKey = "" THEN 401
  ELSE IF apiKey # expectedKey THEN 403
  ELSE PassedOn

\* widgetConfigStore.js: DEFAULT_THEME, and the config created for a project that has none
\* (id and timestamps left out)
DEFAULT_THEME == << Pair("agentName", "Riya"), Pair("avatarUrl", "giphy") >>
NewConfig(projectId) == << Pair("projectId", projectId) >> \o DEFAULT_THEME

ALLOWED_FIELDS ==
  {"agentName", "avatarUrl", "primaryColor", "followupMessage", "bhkPrompt", "inventoryMessage",
   "phonePrompt", "thankYouMessage", "bubblePosition", "autoOpenDelayMs", "welcomeMessage",
   "propertyInfo", "createdBy", "updatedBy"}

sanitizeUpdate(update) ==
  SelectSeq(update, LAMBDA e : e.k \in ALLOWED_FIELDS /\ e.v # "undefined")

\* the store after getWidgetConfig(projectId): a missing config is created and saved
getWidgetConfig(projectId) ==
  IF configStore[projectId] = NoRow
    THEN [configStore EXCEPT ![projectId] = NewConfig(projectId)]
    ELSE configStore

\* the store after upsertWidgetConfig(projectId, update)
upsertWidgetConfig(projectId, update) ==
  [configStore EXCEPT ![projectId] =
     IF configStore[projectId] = NoRow
       THEN Spread(NewConfig(projectId), sanitizeUpdate(update))
       ELSE Spread(Spread(configStore[projectId], sanitizeUpdate(update)),
                   << Pair("projectId", projectId) >>)]

\* the status the POST route's catch block sends (line 137), and the status of the
\* answer the GET route's catch block sends (line 100)
FallbackStatus_Error == 500
FallbackStatus == 200

\* the config of the GET route's catch block
HardcodedDefault(projectId) ==
  << Pair("projectId", projectId), Pair("agentName", "Riya"), Pair("avatarUrl", "cdn"),
     Pair("propertyInfo", "none") >>

\* GET /api/widget-config/:projectId. redisOk: the cache module loads and answers
\* (its failures are swallowed, lines 59-64 and 70-75); storeOk: the config store
\* loads, reads and saves
GetWidgetConfig(projectId, redisOk, storeOk) ==
  /\ UNCHANGED << widgetVars, clockVars, netVars, chatVars, bootVars, flightVars, pageVars, sessionVars >>
  /\ LET cached == IF redisOk THEN redis[projectId] ELSE NoRow
         asked == [NoResponse EXCEPT !.op = "getConfig", !.projectId = projectId,
                                     !.redisOk = redisOk, !.storeOk = storeOk]
     IN IF cached # NoRow
          THEN /\ response' = [asked EXCEPT !.status = 200, !.body = GetConfigBody(cached),
                                            !.cached = TRUE]
               /\ UNCHANGED << configStore, redis >>
          ELSE IF ~storeOk
            THEN /\ response' = [asked EXCEPT !.status = FallbackStatus,
                                              !.body = HardcodedDefault(projectId)]
                 /\ UNCHANGED << configStore, redis >>
            ELSE /\ configStore' = getWidgetConfig(projectId)
                 /\ redis' = IF redisOk
                                THEN [redis EXCEPT ![projectId] = configStore'[projectId]]
                                ELSE redis
                 /\ response' = [asked EXCEPT !.status = 200,
                                              !.body = GetConfigBody(configStore'[projectId])]
  /\ UNCHANGED << expectedKey, leads, chatSessions, events >>

\* GET /api/widget-config/:projectId up to its store read: getCachedConfig found
\* nothing, getWidgetConfig has answered (lines 66-68); the handler now awaits the
\* import of the cache module and setCachedConfig
GetConfigRead(projectId) ==
  /\ UNCHANGED << widgetVars, clockVars, netVars, chatVars, bootVars, pageVars, sessionVars >>
  /\ Len(reads) < MaxReads
  /\ redis[projectId] = NoRow
  /\ configStore' = getWidgetConfig(projectId)
  /\ reads' = Append(reads, [projectId |-> projectId, config |-> configStore'[projectId]])
  /\ UNCHANGED << expectedKey, redis, leads, chatSessions, events, response, writes, answered >>

\* the rest of that request: setCachedConfig(projectId, config, 300) and res.json
\* (lines 70-97)
GetConfigAnswer(k) ==
  /\ UNCHANGED << widgetVars, clockVars, netVars, chatVars, bootVars, pageVars, sessionVars >>
  /\ k \in 1..Len(reads)
  /\ redis' = [redis EXCEPT ![reads[k].projectId] = reads[k].config]
  /\ response' = [NoResponse EXCEPT !.op = "getConfigAnswer", !.projectId = reads[k].projectId,
                                    !.status = 200, !.body = GetConfigBody(reads[k].config)]
  /\ reads' = RemoveAt(reads, k)
  /\ UNCHANGED << expectedKey, configStore, leads, chatSessions, events, writes, answered >>

\* -------------------------------------------------- the file-based config store
\* upsertWidgetConfig(projectId, update) of widgetConfigStore.js up to saveStore:
\* loadStore parses the file as it is now (readFileSync), the call changes its copy
\* and starts writeJson, which awaits mkdir, writeFile and rename
UpsertLoad(projectId, update) ==
  /\ UNCHANGED << widgetVars, clockVars, netVars, chatVars, bootVars, pageVars, sessionVars >>
  /\ Len(writes) < MaxWrites
  /\ writes' = Append(writes, [op |-> "upsert", projectId |-> projectId,
                                store |-> upsertWidgetConfig(projectId, update)])
  /\ UNCHANGED << serverVars, reads, answered >>

\* getWidgetConfig(projectId) of widgetConfigStore.js finds no entry: it pushes a
\* default config to its copy and starts writeJson
GetLoad(projectId) ==
  /\ UNCHANGED << widgetVars, clockVars, netVars, chatVars, bootVars, pageVars, sessionVars >>
  /\ Len(writes) < MaxWrites
  /\ configStore[projectId] = NoRow
  /\ writes' = Append(writes, [op |-> "get", projectId |-> projectId,
                                store |-> getWidgetConfig(projectId)])
  /\ UNCHANGED << serverVars, reads, answered >>

\* writeJson of one call ends (fileStore.js 64-75): rename puts the call's copy in
\* the place of the file, and the call returns its config
SaveStore(k) ==
  /\ UNCHANGED << widgetVars, clockVars, netVars, chatVars, bootVars, pageVars, sessionVars >>
  /\ k \in 1..Len(writes)
  /\ configStore' = writes[k].store
  /\ answered' = IF writes[k].op = "upsert"
                    THEN [answered EXCEPT ![writes[k].projectId] = writes[k].store[writes[k].projectId]]
                    ELSE answered
  /\ writes' = RemoveAt(writes, k)
  /\ UNCHANGED << expectedKey, redis, leads, chatSessions, events, response, reads >>

\* POST /api/widget-config/:projectId behind requireApiKey
PostWidgetConfig(projectId, xApiKey, bearer, update, redisOk, storeOk) ==
  /\ UNCHANGED << widgetVars, clockVars, netVars, chatVars, bootVars, flightVars, pageVars, sessionVars >>
  /\ LET apiKey == RequestKey(xApiKey, bearer)
         asked == [NoResponse EXCEPT !.op = "postConfig", !.projectId = projectId,
                                     !.apiKey = apiKey]
     IN IF requireApiKey(apiKey) # PassedOn
          THEN /\ response' = [asked EXCEPT !.status = requireApiKey(apiKey)]
               /\ UNCHANGED << configStore, redis >>
          ELSE IF ~storeOk
            THEN /\ response' = [asked EXCEPT !.status = 500]
                 /\ UNCHANGED << configStore, redis >>
            ELSE /\ configStore' = upsertWidgetConfig(projectId, update)
                 /\ redis' = IF redisOk THEN [redis EXCEPT ![projectId] = NoRow] ELSE redis
                 /\ response' = [asked EXCEPT !.status = 200,
                                              !.body = configStore'[projectId]]
  /\ UNCHANGED << expectedKey, leads, chatSessions, events >>

\* ------------------------------------------------------------- the leads API
\* Strings the lead route takes apart are sequences of characters.
Digits == {"0", "1", "2", "3", "4", "5", "6", "7", "8", "9"}
DigitValue(c) == CHOOSE n \in 0..9 : << "0", "1", "2", "3", "4", "5", "6", "7", "8", "9" >>[n + 1] = c
LowerLetters ==
  {"a", "b", "c", "d", "e", "f", "g", "h", "i", "j", "k", "l", "m", "n", "o", "p", "q", "r", "s",
   "t", "u", "v", "w", "x", "y", "z"}
UpperLetters ==
  [A |-> "a", B |-> "b", C |-> "c", D |-> "d", E |-> "e", F |-> "f", G |-> "g", H |-> "h", I |-> "i",
   J |-> "j", K |-> "k", L |-> "l", M |-> "m", N |-> "n", O |-> "o", P |-> "p", Q |-> "q", R |-> "r",
   S |-> "s", T |-> "t", U |-> "u", V |-> "v", W |-> "w", X |-> "x", Y |-> "y", Z |-> "z"]

\* String.prototype.toLowerCase, trim
toLowerCase(str) ==
  [n \in 1..Len(str) |-> IF str[n] \in DOMAIN UpperLetters THEN UpperLetters[str[n]] ELSE str[n]]
trim(str) ==
  LET inked == {n \in 1..Len(str) : str[n] # " "}
  IN IF inked = {} THEN << >>
     ELSE SubSeq(str, CHOOSE a \in inked : \A n \in inked : a <= n,
                      CHOOSE b \in inked : \A n \in inked : n <= b)

\* a key left as it was given
normalizeKey_AsGiven(value) == value

\* normalizeKey: lower case, every character outside [a-z0-9] removed
normalizeKey(value) ==
  SelectSeq(toLowerCase(value), LAMBDA c : c \in LowerLetters \cup Digits)

\* trimmed.match(/(\d+)/): the first run of digits, << >> without a match
FirstDigits(str) ==
  LET at == {n \in 1..Len(str) : str[n] \in Digits}
  IN IF at = {} THEN << >>
     ELSE LET a == CHOOSE n \in at : \A m \in at : n <= m
              b == CHOOSE n \in a..Len(str) :
                     /\ \A m \in a..n : str[m] \in Digits
                     /\ (n = Len(str) \/ str[n + 1] \notin Digits)
          IN SubSeq(str, a, b)

\* Number(digits) of a run of digits
RECURSIVE NumberOf(_)
NumberOf(digits) ==
  IF digits = << >> THEN 0
  ELSE 10 * NumberOf(SubSeq(digits, 1, Len(digits) - 1)) + DigitValue(digits[Len(digits)])

\* `${n} BHK`, for the n the route builds it with
BhkLabel(n) == << "1 BHK", "2 BHK", "3 BHK", "4 BHK" >>[n]

SPECIAL_BHK_MAPPINGS ==
  << << << "d", "u", "p", "l", "e", "x" >>, "Duplex" >>,
     << << "j", "u", "s", "t", "b", "r", "o", "w", "s", "i", "n", "g" >>, "Just Browsing" >>,
     << << "j", "u", "s", "t", "l", "o", "o", "k", "i", "n", "g" >>, "Just Browsing" >>,
     << << "o", "t", "h", "e", "r" >>, "Other" >>,
     << << "y", "e", "t", "t", "o", "d", "e", "c", "i", "d", "e" >>, "Yet to decide" >> >>

SpecialKeys == {SPECIAL_BHK_MAPPINGS[n][1] : n \in 1..Len(SPECIAL_BHK_MAPPINGS)}
SpecialType(key) ==
  SPECIAL_BHK_MAPPINGS[CHOOSE n \in 1..Len(SPECIAL_BHK_MAPPINGS) : SPECIAL_BHK_MAPPINGS[n][1] = key][2]

\* Math.round of a number held in tenths
Round(tenths) == (tenths + 5) \div 10

\* the type built for a number in 1..4, when it is built from another number
FromNumber_OffByOne(n) ==
  IF n >= 1 /\ n <= 4 THEN Preference(BhkLabel(IF n = 4 THEN 1 ELSE n + 1), Num(n))
  ELSE Preference("Other", Num(n))

\* the {type, numeric} of a finite number that is not 0 (both branches build it alike)
FromNumber(n) ==
  IF n >= 1 /\ n <= 4 THEN Preference(BhkLabel(n), Num(n)) ELSE Preference("Other", Num(n))

normalizeBhkPreference(bhk, bhkType) ==
  IF bhk.kind = "number"
    THEN IF bhk.tenths = 0 THEN Preference("Yet to decide", NullNumber)
         ELSE FromNumber(Round(bhk.tenths))
  ELSE IF bhkType.kind = "string" /\ bhkType.text # << >>
    THEN LET trimmed == trim(bhkType.text)
             compactKey == normalizeKey(trimmed)
             digitsMatch == FirstDigits(trimmed)
         IN IF trimmed = << >> THEN NoPreference
            ELSE IF compactKey \in SpecialKeys
              THEN Preference(SpecialType(compactKey), NullNumber)
            ELSE IF digitsMatch # << >>
              THEN IF NumberOf(digitsMatch) = 0 THEN Preference("Yet to decide", NullNumber)
                   ELSE FromNumber(NumberOf(digitsMatch))
            ELSE NoPreference
  ELSE NoPreference

\* the bhk / bhkType pairs a submission may carry
BhkSubmissions ==
  {<< bhk, TypeAbsent >> : bhk \in {BhkAbsent, BhkText, BhkNumber(0), BhkNumber(4),
                                     BhkNumber(25), BhkNumber(45)}}
  \cup {<< BhkAbsent, TypeString(text) >> : text \in
           {<< "2", " ", "B", "H", "K" >>, << "1", "2", " ", "B", "H", "K" >>, << "0", " ", "B", "H", "K" >>, << "D", "u", "p", "l", "e", "x" >>,
            << " ", " " >>, << "B", "H", "K" >>, << "o", "t", "h", "e", "r", " ", "2" >>}}
  \cup {<< BhkText, TypeString(<< "3", "b", "h", "k" >>) >>, << BhkNumber(45), TypeString(<< "2", " ", "B", "H", "K" >>) >>}

\* spellings of "yet to decide"
YetToDecideVariants ==
  {<< "y", "e", "t", " ", "t", "o", " ", "d", "e", "c", "i", "d", "e" >>,
   << "Y", "e", "t", " ", "T", "o", " ", "D", "e", "c", "i", "d", "e" >>,
   << " ", "Y", "E", "T", "-", "T", "O", "-", "D", "E", "C", "I", "D", "E", " " >>}

\* submissions that leave the count open, and submissions with a number next to a type
UndecidedSubmissions ==
  {<< BhkNumber(0), TypeAbsent >>, << BhkNumber(0), TypeString(<< "2", " ", "B", "H", "K" >>) >>,
   << BhkNumber(20), TypeString(<< "Y", "e", "t", " ", "T", "o", " ", "D", "e", "c", "i", "d", "e" >>) >>,
   << BhkText, TypeString(<< "y", "e", "t", " ", "t", "o", " ", "d", "e", "c", "i", "d", "e" >>) >>}
  \cup {<< BhkAbsent, TypeString(text) >> : text \in YetToDecideVariants}

\* the phone field: absent (or no string, or blank), one normalizePhone accepts, one
\* it answers with an error
Phones == {"absent", "valid", "malformed"}
\* what fails while the request is handled: nothing, the lead store, the chat session
\* store, the event store
Failures == {"none", "lead", "session", "event"}

\* mysqlLeadStore.js createLead: data.bhk || null
StoredBhk(numeric) == IF numeric.null \/ numeric.n = 0 THEN NullNumber ELSE numeric

\* the row createLead inserts and returns
createLead(phone, normalizedBhk) ==
  [id |-> Len(leads) + 1, phone |-> IF phone = "valid" THEN "valid" ELSE "null",
   bhk_type |-> normalizedBhk.type, bhk |-> StoredBhk(normalizedBhk.numeric)]

\* POST /api/leads
PostLead(microsite, bhk, bhkType, phone, fails) ==
  /\ UNCHANGED << widgetVars, clockVars, netVars, chatVars, bootVars, flightVars, pageVars, sessionVars >>
  /\ Len(leads) < MaxLeads
  /\ \E normalizedBhk \in {normalizeBhkPreference(bhk, bhkType)} :
     LET asked == [NoResponse EXCEPT !.op = "postLead", !.bhk = bhk, !.bhkType = bhkType,
                                     !.phone = phone, !.microsite = microsite, !.fails = fails]
         lead == createLead(phone, normalizedBhk)
     IN IF ~microsite \/ ~normalizedBhk.ok \/ phone = "malformed"
          THEN /\ response' = [asked EXCEPT !.status = 400]
               /\ UNCHANGED << leads, chatSessions, events >>
          ELSE IF fails = "lead"
            THEN /\ response' = [asked EXCEPT !.status = 500]
                 /\ UNCHANGED << leads, chatSessions, events >>
            ELSE /\ leads' = Append(leads, lead)
                 /\ chatSessions' =
                      IF fails = "session" THEN chatSessions
                      ELSE Append(chatSessions, [leadId |-> lead.id, bhkType |-> normalizedBhk.type])
                 /\ IF fails = "event"
                      THEN /\ response' = [asked EXCEPT !.status = 500]
                           /\ UNCHANGED events
                      ELSE /\ events' = Append(events,
                                  [type |-> "lead_submitted", leadId |-> lead.id,
                                   bhkType |-> normalizedBhk.type, bhk |-> normalizedBhk.numeric])
                           /\ response' = [asked EXCEPT !.status = 201, !.lead = lead]
  /\ UNCHANGED << expectedKey, configStore, redis >>

\* ----------------------------------------------------------------- bootstrap
\* config.dataStore after connectMySQL() failed: the catch block (lines 92-100) sets
\* the local storageType and leaves the config object alone
DataStoreAfterFailure(dataStore) == dataStore

\* the database step of bootstrap() (server.js 58-107) up to server.listen: connects
\* says whether connectMySQL() resolved (a failure of initializeSchema is swallowed),
\* redisOk whether initRedis() did
Bootstrap(connects, redisOk) ==
  /\ UNCHANGED << widgetVars, clockVars, netVars, serverVars, chatVars, flightVars, pageVars, sessionVars >>
  /\ bootPc = "start"
  /\ bootPc' = "listening"
  /\ IF MySqlConfigured(processEnv.mysql)
       THEN IF connects
              THEN /\ storageType' = "mysql"
                   /\ config' = [config EXCEPT !.dataStore = "mysql"]
                   /\ redisCache' = redisOk
              ELSE /\ storageType' = "file"
                   /\ config' = [config EXCEPT !.dataStore = DataStoreAfterFailure(@)]
                   /\ redisCache' = FALSE
       ELSE /\ ~connects /\ ~redisOk
            /\ UNCHANGED << storageType, config, redisCache >>
  /\ UNCHANGED << processEnv, resolved >>

\* getLeadStore(), getSessionStore() or getEventStore() in a route handler: the MySQL
\* module when config.dataStore is "mysql", the file module otherwise
ResolveStore(getter) ==
  /\ UNCHANGED << widgetVars, clockVars, netVars, serverVars, chatVars, flightVars, pageVars, sessionVars >>
  /\ bootPc = "listening"
  /\ resolved[getter] = "none"
  /\ resolved' = [resolved EXCEPT ![getter] = IF config.dataStore = "mysql" THEN "mysql" ELSE "file"]
  /\ UNCHANGED << processEnv, config, storageType, bootPc, redisCache >>

\* ----------------------------------------------------------- specification
\* The lifecycle of the widget: concurrent init() calls, mount, destroy, polling
\* timers and listeners.
Next ==
  \/ \E c \in Calls, o \in InitOptions : InitCall(c, o)
  \/ \E c \in Calls : WaitWake(c)
  \/ DomReady
  \/ BodyAppears
  \/ \E c \in Calls, outcome \in FetchOutcomes : InitFetchDone(c, outcome)
  \/ \E c \in Calls : MountResume(c)
  \/ \E c \in Calls : MountTimeout(c)
  \/ \E c \in Calls, outcome \in FetchOutcomes : MountThrows(c, outcome)
  \/ \E i \in Instances : Destroy(i)

\* the lifecycle does not read the content of the config or of the detected property
InitLife == Init /\ serverConfig = ThemeA /\ detected = "none"

Spec == InitLife /\ [][Next]_vars

\* The auto-initialization of the script: the script run once or more at any point of
\* the page load, the document events and the timers in every order.
AutoNext ==
  \/ ExecuteScript
  \/ DOMContentLoaded
  \/ WindowLoad
  \/ AttemptTimer
  \/ FallbackTimer
  \/ \E mounts \in BOOLEAN : AutoInitSettles(mounts)
  \/ PageMounts
  \/ PageDestroys
  \/ \E script \in ScriptElements, globalUrl \in BOOLEAN : PageChanges(script, globalUrl)

InitAuto == InitQuiet /\ InitClock /\ InitNet /\ InitServer

SpecAuto == InitAuto /\ [][AutoNext]_vars

\* The dashboard's requests to /api/users, with the database reachable or not at each.
UsersNext ==
  \/ \E username \in Usernames, passwordOk \in BOOLEAN, dbUp \in BOOLEAN,
        create \in {"created", "simple", "error"} : PostAuth(username, passwordOk, dbUp, create)
  \/ \E token \in Tokens, username \in Usernames, dbUp \in BOOLEAN :
       PostVerify(token, username, dbUp)
  \/ \E token \in Tokens, dbUp \in BOOLEAN : PostLogout(token, dbUp)
  \/ \E token \in Tokens : SessionExpires(token)

InitUsers ==
  /\ InitQuiet /\ InitClock /\ InitNet /\ InitStores
  /\ processEnv = [mysql |-> "vars", production |-> FALSE]
  /\ config = [dataStore |-> "mysql"]
  /\ storageType = "mysql"
  /\ bootPc = "listening"
  /\ redisCache = FALSE
  /\ resolved = NoStores
  /\ reads = << >>
  /\ writes = << >>
  /\ answered = [p \in ConfigProjectIds |-> NoRow]
  /\ usersEnv \in {{}, {"agent"}}
  /\ NoSessions

SpecUsers == InitUsers /\ [][UsersNext]_vars

\* Concurrent init() calls alone, from the call to its return.
InitNext ==
  \/ \E c \in Calls, o \in InitOptions : InitCall(c, o)
  \/ \E c \in Calls : WaitWake(c)
  \/ DomReady
  \/ BodyAppears
  \/ \E c \in Calls, outcome \in FetchOutcomes : InitFetchDone(c, outcome)
  \/ \E c \in Calls : MountResume(c)
  \/ \E c \in Calls : MountTimeout(c)
  \/ \E c \in Calls, outcome \in FetchOutcomes : MountThrows(c, outcome)

\* every wait of init ends: the 100 ms timer of a waiting call fires (setTimeout, line
\* 515), DOMContentLoaded is dispatched, the config request settles, and the body wait
\* ends by the observer or by its 5 s timeout (lines 245-256)
InitProgress ==
  /\ \A c \in Calls : WF_vars(WaitWake(c))
  /\ WF_vars(DomReady)
  /\ \A c \in Calls :
       WF_vars(\E outcome \in FetchOutcomes : InitFetchDone(c, outcome) \/ MountThrows(c, outcome))
  /\ \A c \in Calls : WF_vars(MountResume(c) \/ MountTimeout(c))

SpecInit == InitLife /\ [][InitNext]_vars /\ InitProgress

\* The polling timer and the config-updated listener of the instances over mount,
\* stopConfigPolling, startConfigPolling and destroy.
PollNext ==
  \/ \E c \in Calls, o \in InitOptions : InitCall(c, o)
  \/ \E c \in Calls : WaitWake(c)
  \/ DomReady
  \/ BodyAppears
  \/ \E c \in Calls, outcome \in FetchOutcomes : InitFetchDone(c, outcome)
  \/ \E c \in Calls : MountResume(c)
  \/ \E c \in Calls : MountTimeout(c)
  \/ \E c \in Calls, outcome \in FetchOutcomes : MountThrows(c, outcome)
  \/ \E i \in Instances : Destroy(i)
  \/ \E i \in Instances : StopConfigPolling(i)
  \/ \E i \in Instances : StartConfigPolling(i)
  \/ \E i \in Instances, p \in ProjectIds : UpdateProjectId(i, p)

SpecPoll == InitLife /\ [][PollNext]_vars

\* The live theme of a mounted widget: one init() call, then theme updates by the
\* page, poll ticks, config-updated events and config changes on the server.
ThemeNext ==
  \/ \E o \in InitOptions : InitCall(1, o)
  \/ DomReady
  \/ BodyAppears
  \/ \E outcome \in FetchOutcomes : InitFetchDone(1, outcome)
  \/ MountResume(1)
  \/ MountTimeout(1)
  \/ \E outcome \in FetchOutcomes : MountThrows(1, outcome)
  \/ \E i \in Instances, t \in CallerThemes : UpdateTheme(i, t)
  \/ \E i \in Instances : PollTick(i)
  \/ \E k \in 1..MaxPending, outcome \in FetchOutcomes : PollDeliver(k, outcome)
  \/ ConfigUpdated
  \/ \E k \in 1..MaxPending, outcome \in FetchOutcomes : EventDeliver(k, outcome)
  \/ \E cfg \in ServerConfigs : ServerUpdate(cfg)

SpecTheme == Init /\ [][ThemeNext]_vars

\* the ends of a config request the live widget is followed over: a response, or none
LiveOutcomes == {"ok", "neterr"}

\* A widget from its mount to its destroy: the page's method calls, poll ticks,
\* config-updated events and a config change on the server.
LiveNext ==
  \/ InitCall(1, NoOptions)
  \/ \E outcome \in LiveOutcomes : InitFetchDone(1, outcome)
  \/ \E i \in Instances : Destroy(i)
  \/ \E i \in Instances : StopConfigPolling(i)
  \/ \E i \in Instances : UpdateTheme(i, ThemePA)
  \/ \E i \in Instances : UpdateProjectId(i, "p1")
  \/ \E i \in Instances : PollTick(i)
  \/ \E k \in 1..MaxPending, outcome \in LiveOutcomes : PollDeliver(k, outcome)
  \/ ConfigUpdated
  \/ \E k \in 1..MaxPending, outcome \in LiveOutcomes : EventDeliver(k, outcome)
  \/ ServerUpdate(ThemeB)

InitLive == InitQuiet /\ InitClock /\ InitNet /\ InitServer

SpecLive == InitLive /\ [][LiveNext]_vars

\* A widget that is destroyed and mounted again: the visitor's conversation, and the
\* poll ticks, config-updated events and method calls of both instances.
RemountNext ==
  \/ \E c \in 1..2 : InitCall(c, NoOptions)
  \/ \E c \in 1..2 : WaitWake(c)
  \/ \E c \in 1..2 : InitFetchDone(c, "ok")
  \/ \E i \in Instances : Destroy(i)
  \/ \E st \in ConversationStates : Converse(st)
  \/ \E i \in Instances : UpdateTheme(i, ThemePA)
  \/ \E i \in Instances : PollTick(i)
  \/ \E k \in 1..MaxPending : PollDeliver(k, "ok")
  \/ ConfigUpdated
  \/ \E k \in 1..MaxPending : EventDeliver(k, "ok")
  \/ ServerUpdate(ThemeB)

SpecRemount == InitLive /\ [][RemountNext]_vars

\* The widget config endpoints with Redis and the store working: updates with the
\* server's key, reads, and reads that are overtaken between their store read and their
\* cache write.
CacheRaceNext ==
  \/ \E projectId \in ConfigProjectIds : GetConfigRead(projectId)
  \/ \E k \in 1..MaxReads : GetConfigAnswer(k)
  \/ \E projectId \in ConfigProjectIds : GetWidgetConfig(projectId, TRUE, TRUE)
  \/ \E projectId \in ConfigProjectIds, update \in ConfigUpdates \cup {ThemeA} :
       PostWidgetConfig(projectId, "k1", "", update, TRUE, TRUE)

\* a server started with MySQL and Redis, both connected
InitCacheRace ==
  /\ InitQuiet /\ InitClock /\ InitNet /\ InitStores
  /\ processEnv = [mysql |-> "vars", production |-> FALSE]
  /\ config = [dataStore |-> "mysql"]
  /\ storageType = "mysql"
  /\ bootPc = "listening"
  /\ redisCache = TRUE
  /\ resolved = NoStores
  /\ reads = << >>
  /\ InitSessions
  /\ writes = << >>
  /\ answered = [p \in ConfigProjectIds |-> NoRow]

SpecCacheRace == InitCacheRace /\ [][CacheRaceNext]_vars

\* The file-based config store under concurrent calls.
FileStoreNext ==
  \/ \E projectId \in ConfigProjectIds, update \in ConfigUpdates \cup {ThemeA} :
       UpsertLoad(projectId, update)
  \/ \E projectId \in ConfigProjectIds : GetLoad(projectId)
  \/ \E k \in 1..MaxWrites : SaveStore(k)

InitFileStore == InitQuiet /\ InitClock /\ InitNet /\ InitServer

SpecFileStore == InitFileStore /\ [][FileStoreNext]_vars

\* The start of the API server with every MySQL setting and outcome of the connection
\* attempt, and the stores its routes resolve afterwards.
BootNext ==
  \/ \E connects \in BOOLEAN, redisOk \in BOOLEAN : Bootstrap(connects, redisOk)
  \/ \E getter \in StoreGetters : ResolveStore(getter)

InitBootstrap == InitQuiet /\ InitClock /\ InitNet /\ InitStores /\ InitBoot

SpecBoot == InitBootstrap /\ [][BootNext]_vars

\* A polling widget while the dashboard saves configs: every config request is
\* answered, and the page itself calls no updateTheme.
ConvergeNext ==
  \/ InitCall(1, NoOptions)
  \/ InitFetchDone(1, "ok")
  \/ \E i \in Instances : StopConfigPolling(i)
  \/ \E i \in Instances : PollTick(i)
  \/ \E k \in 1..MaxPending : PollDeliver(k, "ok")
  \/ \E cfg \in ServerConfigs : ServerUpdate(cfg)

\* setInterval runs the poll callback every CONFIG_POLL_INTERVAL_MS for as long as the
\* interval exists (line 352), and a request that succeeds has its response handled
ConvergeProgress ==
  /\ \A i \in Instances : WF_vars(PollTick(i))
  /\ WF_vars(\E k \in 1..MaxPending : PollDeliver(k, "ok"))

SpecConverge == InitLive /\ [][ConvergeNext]_vars /\ ConvergeProgress

\* The theme cache over direct fetchWidgetTheme calls, with and without forceRefresh,
\* while time passes and the server's config changes.
CacheNext ==
  \/ \E forceRefresh \in BOOLEAN, urlBust \in BOOLEAN : fetchWidgetTheme(forceRefresh, urlBust)
  \/ \E k \in 1..MaxPending, outcome \in FetchOutcomes : fetchWidgetThemeReturn(k, outcome)
  \/ Tick
  \/ \E cfg \in ServerConfigs : ServerUpdate(cfg)

\* the page is loaded and no widget is mounted
InitCache == Init /\ readyState = "ready" /\ body = TRUE /\ detected = "none"

SpecCache == InitCache /\ [][CacheNext]_vars

\* fetchWidgetTheme against whatever a backend may answer: the body the GET route
\* builds from a stored config, or the stored object as it is (a backend without the
\* route's conversion)
WireNext ==
  \/ \E forceRefresh \in BOOLEAN : fetchWidgetTheme(forceRefresh, FALSE)
  \/ \E k \in 1..MaxPending, outcome \in FetchOutcomes : fetchWidgetThemeReturn(k, outcome)
  \/ \E cfg \in StoredConfigs : ServerUpdate(GetConfigBody(cfg))
  \/ \E cfg \in StoredConfigs : ServerUpdate(cfg)

SpecWire == InitCache /\ [][WireNext]_vars

\* One widget and the calls of the page on its instance: updateProjectId, with
\* stopConfigPolling and destroy before or after it.
ProjectNext ==
  \/ \E o \in InitOptions : InitCall(1, o)
  \/ DomReady
  \/ BodyAppears
  \/ \E outcome \in FetchOutcomes : InitFetchDone(1, outcome)
  \/ MountResume(1)
  \/ MountTimeout(1)
  \/ \E outcome \in FetchOutcomes : MountThrows(1, outcome)
  \/ \E i \in Instances, p \in ProjectIds : UpdateProjectId(i, p)
  \/ \E i \in Instances : StopConfigPolling(i)
  \/ \E i \in Instances : Destroy(i)
  \/ \E i \in Instances : OnEvent(i)

SpecProject == InitLife /\ [][ProjectNext]_vars

\* init's choice of the API base URL on every kind of page with every configuration,
\* and the requests init and the dispatcher then send.
UrlNext ==
  \/ InitNetwork
  \/ \E extra \in EventExtras : dispatchEvent(extra)

InitUrl == InitQuiet /\ InitClock /\ InitServer /\ page \in Pages /\ configured \in Configurations
             /\ apiBaseUrl = NoUrl /\ netPc = "start" /\ requests = << >>

SpecUrl == InitUrl /\ [][UrlNext]_vars

\* The event dispatcher created with any API base URL on every kind of page.
EventsNext ==
  \/ \E url \in Urls \cup {NoUrl} : createEventDispatcher(url)
  \/ \E extra \in EventExtras : dispatchEvent(extra)
  \/ \E k \in 1..MaxRequests, outcome \in FetchOutcomes : EventSettles(k, outcome)

InitEvents == InitQuiet /\ InitClock /\ InitServer /\ page \in Pages /\ configured = [options |-> NoUrl,
                dataset |-> NoUrl, env |-> NoUrl, global |-> NoUrl]
                /\ apiBaseUrl = NoUrl /\ netPc = "start" /\ requests = << >>

SpecEvents == InitEvents /\ [][EventsNext]_vars

\* The widget config endpoints of the API server: reads and authenticated updates,
\* with the cache or the store failing on any request.
ConfigApiNext ==
  \/ \E projectId \in ConfigProjectIds, redisOk \in BOOLEAN, storeOk \in BOOLEAN :
       GetWidgetConfig(projectId, redisOk, storeOk)
  \/ \E projectId \in ConfigProjectIds, xApiKey \in ApiKeys, bearer \in ExpectedKeys,
        update \in ConfigUpdates, redisOk \in BOOLEAN, storeOk \in BOOLEAN :
       PostWidgetConfig(projectId, xApiKey, bearer, update, redisOk, storeOk)

InitConfigApi ==
  /\ InitQuiet /\ InitClock /\ InitNet /\ InitBooted
  /\ expectedKey \in ExpectedKeys
  /\ configStore \in [ConfigProjectIds -> InitialConfigs]
  /\ redis = [p \in ConfigProjectIds |-> NoRow]
  /\ leads = << >>
  /\ chatSessions = << >>
  /\ events = << >>
  /\ response = NoResponse

SpecConfigApi == InitConfigApi /\ [][ConfigApiNext]_vars

\* Lead submissions to the API server, with any of its stores failing.
LeadsNext ==
  \/ \E microsite \in BOOLEAN, sub \in BhkSubmissions, phone \in Phones, fails \in Failures :
       PostLead(microsite, sub[1], sub[2], phone, fails)

\* no widget is involved; the server has stored nothing yet
InitLeads == InitQuiet /\ InitClock /\ InitNet /\ InitServer

SpecLeads == InitLeads /\ [][LeadsNext]_vars

\* Lead submissions that leave the BHK count open.
UndecidedNext ==
  \/ \E microsite \in BOOLEAN, sub \in UndecidedSubmissions, phone \in Phones, fails \in Failures :
       PostLead(microsite, sub[1], sub[2], phone, fails)

SpecUndecided == InitLeads /\ [][UndecidedNext]_vars

\* ------------------------------------------------------------------ claims
Resolved == {c \in Calls : calls[c].pc = "done"}
AllResolved == Resolved # {} /\ \A c \in Calls : calls[c].pc \in {"idle", "done"}
\* no destroy() has run: every root created is still mounted
NoDestroyYet == \A i \in Created : inst[i].mounted
RealResults == {calls[c].res.id : c \in {d \in Resolved : calls[d].res.kind = "inst"}}
Intervals == {i \in Created : inst[i].polling}
Live == {i \in Created : inst[i].mounted}

C2_DestroyClearsTimer ==
  /\ \A i \in Created : ~inst[i].mounted => ~inst[i].polling
  /\ Cardinality(Intervals) <= Cardinality(Live)

\* C3: a poll tick whose config fetch returned {} does not invoke updateTheme and
\* does not render.
C3_EmptyFetchIsNoOp ==
  (last.op = "poll" /\ last.empty) => (~last.invoked /\ ~last.rendered)

\* C4: updateTheme with a theme that is deep-equal to the current theme after both
\* are stripped of undefined/null fields does not render.
C4_EqualThemeNoRender ==
  (last.op = "updateTheme" /\ last.eq) => ~last.rendered

\* C5: when page detection returned a non-empty map, the rendered theme's propertyInfo
\* is that map right after the mount and right after every poll tick or config-updated
\* refresh that applied a server config carrying its own propertyInfo.
C5_DetectedInfoWins ==
  (/\ detected # "none"
   /\ \/ last.op = "mount"
      \/ /\ last.op \in {"poll", "event"}
         /\ last.invoked
         /\ "propertyInfo" \in KeysOf(inst[last.inst].theme)) =>
    Get(inst[last.inst].theme, "propertyInfo") = detected

\* C6: an init()/mount attempt that found the registry entry or the marked host
\* returned the live instance, with project id and theme set to what was passed.
C6_ReturnsUpdatedInstance ==
  /\ \A c \in Resolved : calls[c].via \in {"registry", "orphan", "mountExisting"} =>
       calls[c].res.kind = "inst"
  /\ last.op = "initExisting" =>
       /\ inst[last.inst].projectId = last.pid
       /\ \A n \in 1..Len(last.theme) :
            Get(inst[last.inst].theme, last.theme[n].k) = last.theme[n].v

\* C7: every no-op object init resolved to has destroy, updateTheme and
\* updateProjectId, so calling any of them does not throw.
C7_NoOpHasAllMethods ==
  \A c \in Resolved :
    calls[c].res.kind = "noop" =>
      {"destroy", "updateTheme", "updateProjectId"} \subseteq calls[c].res.methods

\* C8: the registry holds an entry exactly from a successful mount until destroy():
\* it is the live instance whenever there is one, and empty otherwise.
C8_RegistryTracksLiveInstance ==
  /\ \A i \in Created : inst[i].mounted => mountedWidgets = i
  /\ mountedWidgets # NoInstance => inst[mountedWidgets].mounted

\* C9: an instance that has stopped polling or was destroyed has no config-updated
\* listener left on the page.
C9_NoListenerLeft ==
  \A i \in Created : (~inst[i].polling \/ ~inst[i].mounted) => inst[i].listeners = 0

\* C10: a config fetch that failed (network error, timeout, non-2xx, malformed JSON)
\* returned {} and wrote no cache entry, and the cache only ever holds a config the
\* server served.
C10_FailureReturnsEmptyNoCache ==
  /\ [](themeCache.present => themeCache.data \in ServerConfigs)
  /\ [][(last'.outcome \notin {"none", "ok"}) =>
          (last'.empty /\ themeCache' = themeCache)]_vars

\* a poll tick's fetch failed while the cache held the config of an earlier fetch
C10_Witness ==
  /\ last.op = "poll"
  /\ last.outcome = "timeout"
  /\ last.empty
  /\ themeCache.present

\* C11: fetchWidgetTheme returns the cache entry's data only when forceRefresh is false
\* and the key has an entry younger than the cache window; a call with forceRefresh
\* leaves the key without entry when it starts its network request.
C11_CacheOnlyWhenFresh ==
  [][/\ last'.cached =>
          /\ ~last'.force
          /\ themeCache.present
          /\ now - themeCache.timestamp < CACHE_DURATION_MS
          /\ last'.theme = themeCache.data
     /\ (last'.op = "fetchStart" /\ last'.force) =>
          /\ ~themeCache'.present
          /\ Len(pending') = Len(pending) + 1
     /\ (last'.op \in {"fetchCached", "fetchStart"} /\ last'.force) => last'.op = "fetchStart"]_vars

\* a call without forceRefresh was served an entry written one tick earlier, after
\* an expired entry had been replaced
C11_Witness ==
  /\ last.op = "fetchCached"
  /\ ~last.force
  /\ themeCache.timestamp = CACHE_DURATION_MS + 1
  /\ now = themeCache.timestamp + 1

\* C12: the object fetchWidgetTheme returns for a successful response has no
\* snake_case theme key.
C12_ReturnsCamelCase ==
  (last.op = "fetchReturn" /\ last.outcome = "ok") => KeysOf(last.theme) \cap SnakeKeys = {}

\* the claim's two mismatch cases of a configured URL on a page
Mismatch(u, pg) == u.set /\ ((u.loopback /\ ~pg.loopback) \/ (pg.https /\ ~u.https))
ConfiguredUrls == {configured.options, configured.dataset, configured.env, configured.global}

\* C13: once init has resolved the API base URL, no configured URL that is loopback on
\* a page that is not, or plain http on an https page, is the URL in use or the base
\* of a config or event request.
C13_MismatchedUrlDiscarded ==
  netPc = "mounted" =>
    \A u \in ConfiguredUrls :
      Mismatch(u, page) =>
        /\ apiBaseUrl # u
        /\ \A n \in 1..Len(requests) : requests[n].base # u

\* C14 as stated: dispatchEvent sends nothing when the API is loopback and the page is
\* not, and otherwise exactly one POST; the caller never observes a failure.
C14_OnePostUnlessSuppressed ==
  [][last'.op = "dispatchEvent" =>
       /\ ~last'.threw
       /\ IF apiBaseUrl.set /\ apiBaseUrl.loopback /\ ~page.loopback
            THEN requests' = requests
            ELSE requests' = Append(requests, Request("event", apiBaseUrl))]_vars

\* C14 amended: dispatchEvent sends nothing when the API is loopback and the page is
\* not, or when the payload cannot be serialized, and otherwise exactly one POST built
\* from its API base URL; neither the call nor the outcome of the request lets the
\* caller observe a failure.
C14_AtMostOnePost ==
  [][/\ last'.op = "dispatchEvent" =>
          /\ ~last'.threw
          /\ IF (apiBaseUrl.set /\ apiBaseUrl.loopback /\ ~page.loopback) \/ last'.extra = "circular"
               THEN requests' = requests
               ELSE requests' = Append(requests, Request("event", apiBaseUrl))
     /\ last'.op = "eventSettles" => ~last'.threw]_vars

\* a dispatchEvent call sent its POST after an earlier POST of the dispatcher had
\* failed on the network
C14_Witness ==
  /\ last.op = "dispatchEvent"
  /\ last.sent
  /\ \E n \in 1..Len(requests) : requests[n].status = "failed"
  /\ requests[Len(requests)] = Request("event", apiBaseUrl)

\* C15: updateProjectId(newId) changes nothing but the instance's project id: theme,
\* host, polling timer, listeners, registry, cache and API base URL stay as they are;
\* with an empty newId or the current project id it changes nothing and does not render,
\* and otherwise the project id becomes newId.
C15_OnlyProjectIdChanges ==
  [][last'.op = "updateProjectId" =>
       /\ \A j \in Instances : inst'[j] = [inst[j] EXCEPT !.projectId = inst'[j].projectId]
       /\ \A j \in Instances \ {last'.inst} : inst'[j] = inst[j]
       /\ UNCHANGED << mountedWidgets, themeCache, pending, initInProgress, calls, apiBaseUrl,
                       requests >>
       /\ (last'.pid = "" \/ last'.pid = inst[last'.inst].projectId) =>
            (inst' = inst /\ ~last'.rendered)
       /\ (last'.pid # "" /\ last'.pid # inst[last'.inst].projectId) =>
            inst'[last'.inst].projectId = last'.pid]_vars

\* updateProjectId gave a mounted, polling widget another project id and rendered
C15_Witness ==
  /\ last.op = "updateProjectId"
  /\ last.rendered
  /\ inst[last.inst].projectId = "p1"
  /\ inst[last.inst].polling
  /\ inst[last.inst].theme # EmptyTheme

\* C16: every init() call resolves, whatever fails on its way (the config fetch, a
\* body that never appears, a mount that throws): a call that has started reaches its
\* return, and the value every call resolved to is an object with a destroy method,
\* never a rejection.
C16_InitAlwaysResolves ==
  /\ [](\A c \in Calls : calls[c].pc = "done" =>
           /\ calls[c].res.kind \in {"inst", "noop"}
           /\ "destroy" \in calls[c].res.methods)
  /\ \A c \in Calls : (calls[c].pc # "idle") ~> (calls[c].pc = "done")

\* one call resolved to the dummy after its mount threw, another after the wait for
\* document.body timed out
C16_Witness ==
  /\ \E c \in Calls : calls[c].pc = "done" /\ calls[c].via = "threw"
                        /\ "destroy" \in calls[c].res.methods
  /\ \E c \in Calls : calls[c].pc = "done" /\ calls[c].via = "failed"
                        /\ "destroy" \in calls[c].res.methods

\* C17: a POST to the widget config that carries no API key is answered 401, one that
\* carries a key different from the server's is answered 403, both leave the stored
\* config unchanged; only a request carrying the server's key changes the stored config.
C17_ConfigUpdateNeedsKey ==
  [][response'.op = "postConfig" =>
       /\ response'.apiKey = "" => (response'.status = 401 /\ configStore' = configStore)
       /\ (response'.apiKey # "" /\ response'.apiKey # expectedKey) =>
            (response'.status = 403 /\ configStore' = configStore)
       /\ configStore' # configStore =>
            (response'.apiKey # "" /\ response'.apiKey = expectedKey)]_vars

\* C18 as stated: GET of the widget config always answers 200, and whenever the cache
\* or the config store failed the body is the hardcoded default of that project id.
C18_DefaultOnAnyFailure ==
  response.op = "getConfig" =>
    /\ response.status = 200
    /\ (~response.redisOk \/ ~response.storeOk) =>
         response.body = HardcodedDefault(response.projectId)

\* C18 amended: GET of the widget config always answers 200 with a config object; a
\* failing cache is ignored and the config is read from the store; the body is the
\* hardcoded default of that project id when the config is not served from the cache
\* and the store fails.
C18_AlwaysOkWithConfig ==
  response.op = "getConfig" =>
    /\ response.status = 200
    /\ response.body # NoRow
    /\ (~response.cached /\ ~response.storeOk) =>
         /\ Get(response.body, "projectId") = response.projectId
         /\ Get(response.body, "agentName") = "Riya"
         /\ Get(response.body, "avatarUrl") = "cdn"
         /\ Get(response.body, "propertyInfo") = "none"
    /\ (~response.redisOk /\ response.storeOk) =>
         response.body = GetConfigBody(configStore[response.projectId])
    /\ response.cached => (response.redisOk /\ response.body = GetConfigBody(redis[response.projectId]))

\* both the cache and the store failed on a GET for project p1 whose stored config
\* is not the default
C18_Witness ==
  /\ response.op = "getConfig"
  /\ response.projectId = "p1"
  /\ ~response.redisOk /\ ~response.storeOk
  /\ response.status = 200
  /\ response.body = HardcodedDefault("p1")
  /\ configStore["p1"] \notin {NoRow, NewConfig("p1")}

\* C19: POST /api/leads answers 400 and stores no lead, chat session or event when the
\* BHK preference is missing or invalid or the phone is malformed; when the lead is
\* stored it answers 201 with the created record, whether or not the chat session
\* could be created.
C19_LeadStoredMeans201 ==
  [][response'.op = "postLead" =>
       /\ (response'.phone = "malformed" \/
             (response'.bhk.kind # "number" /\ response'.bhkType.kind # "string")) =>
            (response'.status = 400 /\ UNCHANGED << leads, chatSessions, events >>)
       /\ response'.status = 400 => UNCHANGED << leads, chatSessions, events >>
       /\ leads' # leads =>
            (response'.status = 201 /\ response'.lead = leads'[Len(leads')])]_vars

\* C20: a submission whose preference is a count n in 1..4, given as a numeric bhk that
\* rounds to n or, without a numeric bhk, as a bhkType whose digits are n, is stored
\* with bhk = n and bhk_type = "n BHK", and its lead_submitted event carries bhk = n;
\* no stored lead has a type "n BHK" without the numeric n in 1..4.
C20_CountStoredWithLabel ==
  /\ \A k \in 1..Len(leads) :
       leads[k].bhk_type \in {"1 BHK", "2 BHK", "3 BHK", "4 BHK"} =>
         /\ ~leads[k].bhk.null
         /\ leads[k].bhk.n \in 1..4
         /\ leads[k].bhk_type = << "1 BHK", "2 BHK", "3 BHK", "4 BHK" >>[leads[k].bhk.n]
  /\ (response.op = "postLead" /\ response.status \in {201, 500} /\ response.fails # "lead") =>
       \A n \in 1..4 :
         (\/ response.bhk.kind = "number" /\ response.bhk.tenths \in (10 * n - 5)..(10 * n + 4)
          \/ /\ response.bhk.kind # "number"
             /\ response.bhkType.kind = "string"
             /\ FirstDigits(response.bhkType.text) = << << "1", "2", "3", "4" >>[n] >>
             /\ normalizeKey(response.bhkType.text) \notin SpecialKeys) =>
           /\ leads[Len(leads)].bhk = [null |-> FALSE, n |-> n]
           /\ leads[Len(leads)].bhk_type = << "1 BHK", "2 BHK", "3 BHK", "4 BHK" >>[n]
           /\ response.status = 201 =>
                /\ events[Len(events)].type = "lead_submitted"
                /\ events[Len(events)].leadId = leads[Len(leads)].id
                /\ events[Len(events)].bhk = [null |-> FALSE, n |-> n]

\* a submission with bhk 2.5 was stored as 3 / "3 BHK" and its event recorded
C20_Witness ==
  /\ response.op = "postLead"
  /\ response.status = 201
  /\ response.bhk = BhkNumber(25)
  /\ leads[Len(leads)].bhk = Num(3)
  /\ leads[Len(leads)].bhk_type = "3 BHK"
  /\ events[Len(events)].bhk = Num(3)

\* C21: a lead submitted with bhk = 0, or without a numeric bhk and with a bhkType that
\* spells "yet to decide" in any case, spacing or punctuation, passes validation and is
\* stored with bhk = null and bhk_type = "Yet to decide", and its lead_submitted event
\* carries no bhk; a numeric bhk takes precedence over the bhkType sent with it.
C21_UndecidedStoredWithoutCount ==
  response.op = "postLead" =>
    /\ (\/ response.bhk = [kind |-> "number", tenths |-> 0]
        \/ response.bhk.kind # "number" /\ response.bhkType.kind = "string"
             /\ response.bhkType.text \in YetToDecideVariants) =>
         /\ (response.microsite /\ response.phone # "malformed") => response.status # 400
         /\ response.status \in {201, 500} /\ response.fails # "lead" =>
              /\ leads # << >>
              /\ leads[Len(leads)].bhk.null
              /\ leads[Len(leads)].bhk_type = "Yet to decide"
              /\ response.status = 201 =>
                   /\ events[Len(events)].leadId = leads[Len(leads)].id
                   /\ events[Len(events)].bhk.null
    /\ (response.bhk.kind = "number" /\ response.bhk.tenths = 20 /\ response.status = 201) =>
         /\ leads[Len(leads)].bhk = [null |-> FALSE, n |-> 2]
         /\ leads[Len(leads)].bhk_type = "2 BHK"

\* " YET-TO-DECIDE " was stored as "Yet to decide" without a count and its event recorded
C21_Witness ==
  /\ response.op = "postLead"
  /\ response.status = 201
  /\ response.bhkType.kind = "string"
  /\ Len(response.bhkType.text) = 15
  /\ leads[Len(leads)].bhk_type = "Yet to decide"
  /\ leads[Len(leads)].bhk.null
  /\ events[Len(events)].bhk.null

\* C22: at most one init call is between taking the initialization flag and clearing
\* it, and the flag is set exactly while one is; a call that found the flag set stays
\* waiting while the flag is set (no config fetch, no host), and when the flag has
\* cleared it returns the registered instance if there is one and takes the flag for
\* its own mount sequence only if there is none.
C22_OneInitAtATime ==
  /\ [](Cardinality({c \in Calls : calls[c].pc \in {"waitDom", "fetching", "waitBody"}})
          = IF initInProgress THEN 1 ELSE 0)
  /\ [][\A c \in Calls :
          (calls[c].pc = "waitFlag" /\ calls'[c].pc # "waitFlag") =>
            /\ ~initInProgress
            /\ IF mountedWidgets # NoInstance
                 THEN /\ calls'[c].pc = "done"
                      /\ calls'[c].res = [kind |-> "inst", id |-> mountedWidgets,
                                          methods |-> InstanceMethods]
                      /\ UNCHANGED << inst, nextId, initInProgress, themeCache >>
                 ELSE /\ calls'[c].pc \in {"waitDom", "fetching"}
                      /\ initInProgress']_vars

\* one call is fetching its config while two others wait for the flag
C22_Witness ==
  /\ initInProgress
  /\ \E c \in Calls : calls[c].pc = "fetching"
  /\ Cardinality({c \in Calls : calls[c].pc = "waitFlag"}) = 2

\* C23: between mount and destroy, updateTheme, updateProjectId, poll ticks and
\* config-updated events (their fetches and the responses) leave every instance's host
\* where it is, its render root mounted and no host, shadow root, mount node or root
\* created or registered anew; and every root.render call is given the one
\* widgetStateStore object as preservedState.
C23_UpdatesKeepHostAndState ==
  /\ [](last.rendered => last.preserved = "widgetStateStore")
  /\ [][(last'.op \in {"updateTheme", "updateProjectId", "poll", "event"} \/ pending' # pending) =>
          /\ \A i \in DOMAIN inst :
                /\ inst'[i].inDom = inst[i].inDom
                /\ inst'[i].mounted = inst[i].mounted
                /\ inst'[i].target = inst[i].target
          /\ nextId' = nextId
          /\ mountedWidgets' = mountedWidgets]_vars

\* a poll tick's response changed the theme of the mounted widget and rendered, after
\* the page had given it another project id
C23_Witness ==
  /\ last.op = "poll"
  /\ last.rendered
  /\ last.inst = mountedWidgets
  /\ inst[last.inst].inDom
  /\ inst[last.inst].mounted
  /\ inst[last.inst].projectId = "p1"

C25_CompareAndRenderInOneStep ==
  [][last'.op \in {"poll", "event"} =>
       /\ last'.rendered => inst'[last'.inst].theme # inst[last'.inst].theme
       /\ ~last'.invoked => inst'[last'.inst].theme = inst[last'.inst].theme
       /\ (last'.op = "poll" /\ ~last'.invoked) => last'.eq
       /\ Len(pending') = Len(pending) - 1]_vars

\* the response of a poll tick is rendered while a config-updated refresh of the same
\* widget is still in flight
C25_Witness ==
  /\ last.op = "poll"
  /\ last.rendered
  /\ \E k \in 1..Len(pending) : pending[k].inst = last.inst /\ pending[k].src = "event"

\* C26: when the config the endpoint serves stays fixed from some point on and the
\* config requests succeed, then from some point on the theme of every instance that
\* keeps polling equals that config and no poll tick renders any more.
C26_PolledThemeConverges ==
  \A cfg \in {ThemeA, ThemeB, ThemeAP} :
    <>[](serverConfig = cfg) =>
      <>[](\A i \in DOMAIN inst :
             (inst[i].polling /\ inst[i].mounted) =>
               /\ inst[i].theme = cfg
               /\ ~(last.op = "poll" /\ last.inst = i /\ last.rendered))

\* a poll tick rendered the config the dashboard saved after the mount
C26_Witness ==
  /\ last.op = "poll"
  /\ last.rendered
  /\ inst[last.inst].polling
  /\ serverConfig = ThemeB
  /\ inst[last.inst].theme = ThemeB

\* C27: a mount finds the conversation state as the module created it (closed, first
\* stage, no messages, no name or phone), also after a destroy; and a poll tick, a
\* config-updated refresh or an updateTheme call of a destroyed instance renders
\* nothing and leaves the theme of every other instance as it is.
C27_RemountIsIndependent ==
  /\ [](last.op = "mount" =>
          widgetStateStore = [isOpen |-> FALSE, currentStage |-> "cta", messages |-> 0,
                              userName |-> "", phoneSubmitted |-> FALSE])
  /\ [][(last'.op \in {"poll", "event", "updateTheme"} /\ ~inst[last'.inst].mounted) =>
          /\ ~last'.rendered
          /\ \A j \in DOMAIN inst : j # last'.inst => inst'[j].theme = inst[j].theme]_vars

\* C28: once the server listens after a failed MySQL connection attempt (MySQL is
\* configured, storageType is "file"), config.dataStore is "file" and every store a
\* route resolves is the file-based one; and config.dataStore is "mysql" only when the
\* connection succeeded.
C28_FailedConnectionFallsBackToFiles ==
  bootPc = "listening" =>
    /\ config.dataStore = "mysql" => storageType = "mysql"
    /\ (processEnv.mysql # "unset" /\ storageType = "file") =>
          \A getter \in DOMAIN resolved : resolved[getter] \in {"none", "file"}

\* C29: a response of a poll tick or of a config-updated refresh never takes the theme
\* or the cache entry back: when the theme (the cache entry) already is the config the
\* endpoint serves now, it still is after a response has been handled, in whatever
\* order the responses of overlapping requests arrive.
C29_NoReturnToOlderConfig ==
  [][(last'.op \in {"poll", "event"} /\ last'.outcome = "ok") =>
       /\ \A i \in DOMAIN inst : inst[i].theme = serverConfig => inst'[i].theme = serverConfig
       /\ (themeCache.present /\ themeCache.data = serverConfig) =>
             (themeCache'.present /\ themeCache'.data = serverConfig)]_vars

\* C30: when an init(options) call resolves to the registered instance, that instance
\* has the project id of this call, whether the call found the widget mounted, waited
\* for another initialization or mounted the widget itself.
C30_EveryInitAppliesItsProjectId ==
  [][\A c \in DOMAIN calls :
       (calls[c].pc # "done" /\ calls'[c].pc = "done" /\ calls'[c].res.kind = "inst") =>
         inst'[calls'[c].res.id].projectId =
           IF calls[c].pc = "idle" THEN last'.pid ELSE ResolveProjectId(calls[c].opts)]_vars

\* C31: the initialization-in-progress flag, once set, is cleared again, after a mount
\* and after every failure; a call waiting on the flag leaves its wait loop; and a call
\* that holds the flag reaches its return.
C31_FlagIsAlwaysCleared ==
  /\ initInProgress ~> ~initInProgress
  /\ \A c \in Calls : (calls[c].pc = "waitFlag") ~> (calls[c].pc # "waitFlag")
  /\ \A c \in Calls :
       (calls[c].pc \in {"waitDom", "fetching", "waitBody"}) ~> (calls[c].pc = "done" /\ ~initInProgress)

\* the first call failed in its mount, a waiting call then mounted the widget and
\* another waiting call found it
C31_Witness ==
  /\ ~initInProgress
  /\ \E c \in 1..Len(calls) : calls[c].pc = "done" /\ calls[c].via = "threw"
  /\ \E c \in 1..Len(calls) : calls[c].pc = "done" /\ calls[c].via = "waited"

\* C32: with Redis working, a GET of a project's config that starts after the updates
\* answered so far returns the config the store holds, that is the last update, also
\* when GET requests were between their store read and their cache write while the
\* update was handled.
C32_GetAfterPostIsFresh ==
  [][(response'.op = "getConfig" /\ response'.status = 200) =>
       response'.body = GetConfigBody(configStore'[response'.projectId])]_vars

\* C33: no update of the file-based config store is lost: when no call is between its
\* load and its save, the store holds for every project id the config the last
\* answered upsert of that project returned.
C33_NoLostUpdate ==
  writes = << >> =>
    \A p \in DOMAIN answered :
      answered[p] # << [k |-> "none", v |-> "none"] >> => configStore[p] = answered[p]

\* C34: a POST /api/leads that is answered with a status other than 201 has stored no
\* lead, also when recording the lead_submitted event failed.
C34_NoLeadWithoutCreated ==
  [][(response'.op = "postLead" /\ response'.status # 201) => leads' = leads]_vars

\* C35: once updateProjectId(p) has changed the project id of an instance, the project
\* id the widget is rendered with is p and every event the widget dispatches afterwards
\* carries p as its projectId.
C35_EventsCarryCurrentProjectId ==
  [][/\ (last'.op = "updateProjectId" /\ last'.rendered) =>
          inst'[last'.inst].projectId = last'.pid
     /\ last'.op = "onEvent" => last'.pid = inst'[last'.inst].projectId]_vars

\* C36: the auto-initialization calls init at most once on a page, whatever the order of
\* repeated script executions, DOMContentLoaded, the retry timers and the load
\* fallback; it calls init only when no call was started before and no widget host or
\* registry entry exists.
C36_AutoInitCallsInitOnce ==
  [][autoInit'.initCalls # autoInit.initCalls =>
       /\ autoInit.initCalls = 0 /\ autoInit'.initCalls = 1
       /\ ~autoInit.host /\ ~autoInit.mounted /\ ~autoInit.initialized]_vars

\* init was called once, and a later timer of the load fallback found nothing to do
\* after the script had been executed twice
C36_Witness ==
  /\ autoInit.initCalls = 1
  /\ autoInit.executions = 2
  /\ last.op = "fallbackTimer" /\ last.outcome = "skipped"

\* C37: /api/users/verify answers valid:true only for a token that a successful auth
\* issued to that username, whose session has not expired and that no logout has
\* deleted, with the database reachable or not.
C37_VerifyOnlyLiveSessions ==
  verdict.valid =>
    /\ issued[verdict.token] = verdict.username
    /\ sessions[verdict.token] # NoSession /\ ~sessions[verdict.token].expired
    /\ verdict.token \notin loggedOut

====
